---- MODULE Spec2Model ----
(***************************************************************************)
(* A model of the MCP agent runtime (McpAgent, its two transports and its  *)
(* split-channel session handling) and of the MyMCP agent built on it.     *)
(*                                                                         *)
(* Every asynchronous operation is cut at its await points: one action is  *)
(* the code that runs between two suspension points of one call.  A call   *)
(* is one entry of the sequence calls; its pc names the await it is        *)
(* suspended at.                                                           *)
(***************************************************************************)
EXTENDS Integers, Sequences, FiniteSets, TLC

\* ------------------------------------------------------------------ bounds

\* Number of calls started in one behaviour of the lazy-initialization
\* specification.
MaxCalls == 2

\* Number of requests and stream cancellations started in one behaviour of the
\* split-channel specification.
MaxRequests == 3

\* Number of calls started in one behaviour of the shared-state specification.
MaxStateCalls == 3

\* Number of calls started in one behaviour of the registry specification.
MaxRegistryCalls == 2

\* Longest list of definitions the init() of the registry specification registers.
MaxDefs == 2

\* Longest JSON array a POST body carries.
MaxBatch == 2

\* Number of setState calls made outside init() in one behaviour.
MaxSetState == 1

\* Number of server-initiated transport closes in one behaviour.
MaxServerClose == 1

\* Number of calls of the static entry points in one behaviour of the
\* instance-table specification.
MaxFactoryCalls == 4

\* Nesting depth of the descriptors below a configuration's schema entries.
MaxDepth == 2

\* Number of requests started in one behaviour of the routing specification.
MaxRouteCalls == 3

\* Number of requests and cancellations started in one behaviour of the
\* session-lifecycle specification.
MaxLifeCalls == 3

\* Number of runs of one session's interval callback.
MaxHeartbeats == 1

\* Number of calls of start() on one transport.
MaxStarts == 2

\* Number of upgrade requests in one behaviour of the duplex specification.
MaxSockets == 2

\* Number of frames a peer sends on one socket.
MaxFrames == 2

\* Number of requests in one behaviour of the responses specification.
MaxSessionCalls == 4

\* Number of requests in one behaviour of the tool-route specification.
MaxApiCalls == 2

\* Number of tasks started in one behaviour of the long-task specification.
MaxTasks == 2

\* ------------------------------------------------------------------ values

\* The session identifier of a request path with no further segment.
NoId == 0

\* A session identifier that was never issued.
BogusId == -1

\* Argument objects.  defined = FALSE is an absent/undefined argument object;
\* otherwise obj maps field names to values.
Undefined == [defined |-> FALSE, obj |-> <<>>]

Obj(o) == [defined |-> TRUE, obj |-> o]

EmptyArgs == Obj(<<>>)

\* A variant that hands on an empty object whatever it is given.
OrEmptyDropping(args) == EmptyArgs

\* args ?? {}
OrEmpty(args) == IF args.defined THEN args ELSE EmptyArgs

ArgSamples ==
    { Undefined,
      EmptyArgs,
      Obj([action |-> "get"]),
      Obj([action |-> "get", extra |-> "x"]),
      Obj([extra |-> "x"]),
      Obj([action |-> "bogus"]) }

\* ----------------------------------------------------------------- schemas

\* A tool with no schema.
NoSchema == [present |-> FALSE, required |-> {}, enums |-> {}, catchall |-> FALSE,
             known |-> {}]

\* z.object({...}): required are the keys not marked optional, enums the
\* keys whose value must be one of the enum's members, known the declared keys.
\* A plain z.object strips undeclared keys; catchall(z.any()) keeps them.
ZObject(required, enums, known, catchall) ==
    [present |-> TRUE, required |-> required, enums |-> enums,
     catchall |-> catchall, known |-> known]

\* The members of the action enums of the built-in schemas.
EnumMembers == {"get", "put", "delete", "list", "start", "status", "cancel",
                "upsert", "query"}

\* schema.parseAsync(obj) succeeds.
ParseOk(schema, o) ==
    /\ schema.required \subseteq DOMAIN o
    /\ \A f \in (DOMAIN o) \cap schema.enums : o[f] \in EnumMembers

\* The value schema.parseAsync(obj) resolves to.
Parsed(schema, o) ==
    IF schema.catchall THEN o
    ELSE [f \in (DOMAIN o) \cap schema.known |-> o[f]]

\* ---------------------------------------------------------------- registry

\* listTools(): one entry per registered tool, in registration order, with the
\* schema override of a remote tool, the converted schema, or the open object.
listTools(reg) ==
    [i \in 1..Len(reg) |->
        [name |-> reg[i].name,
         schema |-> IF reg[i].origin[1] = "remote" THEN "override"
                    ELSE IF reg[i].schema.present THEN "converted" ELSE "open"]]

\* The registry is a Map: insertion-ordered, one entry per name.
Has(reg, name) == \E i \in 1..Len(reg) : reg[i].name = name

Get(reg, name) == reg[CHOOSE i \in 1..Len(reg) : reg[i].name = name]

Names(reg) == { reg[i].name : i \in 1..Len(reg) }

\* A variant with no check of the name: tools.set replaces the entry in place.
registerToolReplacing(reg, d) ==
    IF Has(reg, d.name)
    THEN [threw |-> FALSE,
          tools |-> [i \in 1..Len(reg) |-> IF reg[i].name = d.name THEN d ELSE reg[i]]]
    ELSE [threw |-> FALSE, tools |-> Append(reg, d)]

\* registerTool(definition): throws when the name is taken, else appends.
registerTool(reg, d) ==
    IF Has(reg, d.name)
    THEN [threw |-> TRUE, tools |-> reg]
    ELSE [threw |-> FALSE, tools |-> Append(reg, d)]

Tool(name, schema, origin) == [name |-> name, schema |-> schema, origin |-> origin]

\* The five tools MyMCP.init registers, in order.
BuiltinTools ==
    << Tool("browser_render",
            ZObject({"url"}, {"method"},
                    {"url", "endpoint", "method", "waitFor", "screenshot",
                     "script", "headers", "metadata"}, FALSE), <<"builtin", 0, 0>>),
       Tool("d1_query",
            ZObject({}, {}, {"statement", "statements", "readOnly"}, FALSE),
            <<"builtin", 0, 0>>),
       Tool("kv",
            ZObject({"action"}, {"action", "type"},
                    {"action", "key", "value", "metadata", "expirationTtl",
                     "prefix", "limit", "type"}, FALSE), <<"builtin", 0, 0>>),
       Tool("vectorize",
            ZObject({"action"}, {"action"},
                    {"action", "vectors", "vector", "topK", "filter", "ids"},
                    FALSE), <<"builtin", 0, 0>>),
       Tool("durable_task",
            ZObject({"action"}, {"action"}, {"action", "taskId", "payload"},
                    FALSE), <<"builtin", 0, 0>>) >>


\* ------------------------------------------------------------ environments

\* One entry of the MCP_REMOTE_TOOLS array: a name and an endpoint, either of
\* which may be empty.
RemoteToolConfig(name, endpoint) == [name |-> name, endpoint |-> endpoint]

\* The environments a request may carry.  raw is the MCP_REMOTE_TOOLS text:
\* absent, not JSON, or a JSON array of configs.
Envs ==
    << [raw |-> "absent", configs |-> <<>>],
       [raw |-> "array",
        configs |-> << RemoteToolConfig("echo", "https://echo"),
                       RemoteToolConfig("noendpoint", ""),
                       RemoteToolConfig("KV", "https://kv") >>],
       [raw |-> "array",
        configs |-> << RemoteToolConfig("echo", "https://echo"),
                       RemoteToolConfig("kv", "https://kv") >>] >>

EnvIds == 1..Len(Envs)

\* The environments whose remote tools all have names of their own.
CleanEnvIds == {1, 2}

\* z.object(shape).catchall(z.any()) of a config with no schema entries.
RemoteSchema == ZObject({}, {}, {}, TRUE)

\* The agent's shared state.
AgentState(remoteTools) == [remoteTools |-> remoteTools]

InitialState == AgentState(<<>>)

\* The values setState is called with outside init().
StateSamples == { AgentState(<<"replaced">>), AgentState(<<"replaced", "again">>) }

\* The for loop of registerRemoteTools from entry i on; registered collects
\* the names pushed so far.
RECURSIVE registerEach(_, _, _, _)
registerEach(reg, e, i, registered) ==
    LET cfgs == Envs[e].configs IN
    IF i > Len(cfgs)
    THEN [threw |-> FALSE, tools |-> reg, registered |-> registered]
    ELSE IF cfgs[i].name = "" \/ cfgs[i].endpoint = ""
    THEN registerEach(reg, e, i + 1, registered)
    ELSE LET r == registerTool(reg, Tool(cfgs[i].name, RemoteSchema, <<"remote", e, i>>))
         IN  IF r.threw
             THEN [threw |-> TRUE, tools |-> reg, registered |-> registered]
             ELSE registerEach(r.tools, e, i + 1, Append(registered, cfgs[i].name))

\* registerRemoteTools() with this.env = Envs[e]: nothing without a parsable
\* configuration; setState only after the whole loop, if anything was registered.
registerRemoteTools(reg, e) ==
    IF Envs[e].raw # "array"
    THEN [threw |-> FALSE, tools |-> reg, setState |-> FALSE, next |-> InitialState]
    ELSE LET r == registerEach(reg, e, 1, <<>>)
         IN  [threw |-> r.threw, tools |-> r.tools,
              setState |-> ~r.threw /\ r.registered # <<>>,
              next |-> AgentState(r.registered)]

\* The registrations of a list of definitions, stopping at the first throw.
RECURSIVE registerAll(_, _)
registerAll(reg, defs) ==
    IF defs = <<>>
    THEN [threw |-> FALSE, tools |-> reg]
    ELSE LET r == registerTool(reg, Head(defs))
         IN  IF r.threw THEN r ELSE registerAll(r.tools, Tail(defs))

\* ---------------------------------------------------------- schema compiler

\* A RemoteToolField: its type tag, its optional flag, its items descriptor (a
\* sequence of none or one) and its properties in Object.entries order.
Field(type, optional, items, properties) ==
    [type |-> type, optional |-> optional, items |-> items, properties |-> properties]

\* One entry of a properties object or of a configuration's schema object.
Prop(key, field) == [key |-> key, field |-> field]

\* A zod type: kind is string, number, boolean, array, object or any; optional
\* is set by .optional(); element is the element type of an array; shape and
\* catchall are those of an object.
ZType(kind, optional, element, shape, catchall) ==
    [kind |-> kind, optional |-> optional, element |-> element, shape |-> shape,
     catchall |-> catchall]

ZAny == ZType("any", FALSE, <<>>, <<>>, FALSE)

\* schema.optional()
ZOptional(z) == [z EXCEPT !.optional = TRUE]

\* A wire schema document: type is empty when the document has no type key.
Wire(type, items, properties, required) ==
    [type |-> type, items |-> items, properties |-> properties, required |-> required]

\* {}
EmptyWire == Wire("", <<>>, <<>>, <<>>)

\* The keys of the entries whose descriptor is not marked optional, in order.
RECURSIVE NonOptionalKeys(_)
NonOptionalKeys(props) ==
    IF props = <<>> THEN <<>>
    ELSE IF Head(props).field.optional
    THEN NonOptionalKeys(Tail(props))
    ELSE << Head(props).key >> \o NonOptionalKeys(Tail(props))

\* A variant that lists every property as required.
AllKeys(props) == [i \in 1..Len(props) |-> props[i].key]

\* Object.entries(...).filter(([, value]) => !value.optional).map(([key]) => key)
RequiredKeys(props) == NonOptionalKeys(props)

\* scalarField(field): the validator of one descriptor.
RECURSIVE scalarField(_)
scalarField(field) ==
    CASE field.type \in {"string", "number", "boolean"} ->
             ZType(field.type, FALSE, <<>>, <<>>, FALSE)
      [] field.type = "array" ->
             ZType("array", FALSE,
                   << IF field.items # <<>> THEN scalarField(field.items[1]) ELSE ZAny >>,
                   <<>>, FALSE)
      [] field.type = "object" ->
             ZType("object", FALSE, <<>>,
                   [i \in 1..Len(field.properties) |->
                       LET value == field.properties[i].field
                       IN  [key |-> field.properties[i].key,
                            schema |-> IF value.optional
                                       THEN ZOptional(scalarField(value))
                                       ELSE scalarField(value)]],
                   FALSE)
      [] OTHER -> ZAny

\* jsonSchemaFromField(field): the wire schema of one descriptor.
RECURSIVE jsonSchemaFromField(_)
jsonSchemaFromField(field) ==
    CASE field.type \in {"string", "number", "boolean"} ->
             Wire(field.type, <<>>, <<>>, <<>>)
      [] field.type = "array" ->
             Wire("array",
                  << IF field.items # <<>> THEN jsonSchemaFromField(field.items[1])
                     ELSE EmptyWire >>,
                  <<>>, <<>>)
      [] field.type = "object" ->
             Wire("object", <<>>,
                  [i \in 1..Len(field.properties) |->
                      [key |-> field.properties[i].key,
                       schema |-> jsonSchemaFromField(field.properties[i].field)]],
                  RequiredKeys(field.properties))
      [] OTHER -> EmptyWire

\* The validator registerRemoteTools builds for a configuration's schema
\* entries: z.object(shape).catchall(z.any()).
remoteValidator(entries) ==
    ZType("object", FALSE, <<>>,
          [i \in 1..Len(entries) |->
              [key |-> entries[i].key,
               schema |-> IF entries[i].field.optional
                          THEN ZOptional(scalarField(entries[i].field))
                          ELSE scalarField(entries[i].field)]],
          TRUE)

\* The jsonSchema override registerRemoteTools builds for the same entries.
remoteJsonSchema(entries) ==
    Wire("object", <<>>,
         [i \in 1..Len(entries) |->
             [key |-> entries[i].key, schema |-> jsonSchemaFromField(entries[i].field)]],
         RequiredKeys(entries))

\* A JSON value: a string, a number, a boolean, an array of values or an
\* object, its entries in order.
Val(kind, elems, entries) == [kind |-> kind, elems |-> elems, entries |-> entries]

StrV == Val("string", <<>>, <<>>)

NumV == Val("number", <<>>, <<>>)

KeysOf(v) == { v.entries[i].key : i \in 1..Len(v.entries) }

ValueAt(v, key) == v.entries[CHOOSE i \in 1..Len(v.entries) : v.entries[i].key = key].value

\* What zod does with a key of the shape that the input lacks: it parses
\* undefined, which an optional type and z.any() accept.
AcceptsMissing(z) == z.optional \/ z.kind = "any"

\* schema.parseAsync(v) resolves.
RECURSIVE Accepts(_, _)
Accepts(z, v) ==
    CASE z.kind = "any" -> TRUE
      [] z.kind \in {"string", "number", "boolean"} -> v.kind = z.kind
      [] z.kind = "array" ->
             /\ v.kind = "array"
             /\ \A i \in 1..Len(v.elems) : Accepts(z.element[1], v.elems[i])
      [] z.kind = "object" ->
             /\ v.kind = "object"
             /\ \A i \in 1..Len(z.shape) :
                    IF z.shape[i].key \in KeysOf(v)
                    THEN Accepts(z.shape[i].schema, ValueAt(v, z.shape[i].key))
                    ELSE AcceptsMissing(z.shape[i].schema)

\* The descriptors compiled: string leaves, required and optional; arrays
\* with and without items; objects of none, one or two properties, the second
\* an optional string.
Leaves == { Field("string", o, <<>>, <<>>) : o \in BOOLEAN }

RECURSIVE Fields(_)
Fields(depth) ==
    IF depth = 0
    THEN Leaves \cup { Field("array", FALSE, <<>>, <<>>), Field("object", FALSE, <<>>, <<>>) }
    ELSE LET below == Fields(depth - 1)
         IN  below
               \cup { Field("array", FALSE, << t >>, <<>>) : t \in below }
               \cup { Field("object", o, <<>>, << Prop("a", t) >>) :
                          t \in below, o \in BOOLEAN }
               \cup { Field("object", o, <<>>,
                            << Prop("a", t), Prop("b", Field("string", TRUE, <<>>, <<>>)) >>) :
                          t \in below, o \in BOOLEAN }

\* The schema objects of the configurations compiled.
ConfigSchemas ==
    { << Prop("a", t) >> : t \in Fields(MaxDepth) }
        \cup { << Prop("a", t), Prop("b", Field("string", TRUE, <<>>, <<>>)) >> :
                   t \in Fields(MaxDepth) }

\* The values tried on a descriptor: of the declared type and not, arrays of
\* none and of one element, objects with each property absent or present.
RECURSIVE ValuesFor(_)
RECURSIVE EntriesFor(_)
ValuesFor(field) ==
    CASE field.type = "string" -> { StrV, NumV }
      [] field.type = "array" ->
             { StrV, Val("array", <<>>, <<>>) }
                 \cup { Val("array", << e >>, <<>>) :
                            e \in IF field.items # <<>> THEN ValuesFor(field.items[1])
                                  ELSE { NumV } }
      [] field.type = "object" ->
             { StrV } \cup { Val("object", <<>>, es) : es \in EntriesFor(field.properties) }
      [] OTHER -> { StrV }

EntriesFor(props) ==
    IF props = <<>> THEN { <<>> }
    ELSE LET rest == EntriesFor(Tail(props))
         IN  rest \cup { << [key |-> Head(props).key, value |-> v] >> \o r :
                             v \in ValuesFor(Head(props).field), r \in rest }

\* The argument objects tried on the validator of a configuration, one of
\* them with a key the schema does not declare.
ArgumentsFor(entries) ==
    { Val("object", <<>>, es) : es \in EntriesFor(entries) }
        \cup { Val("object", <<>>, << [key |-> "extra", value |-> NumV] >>) }

\* ------------------------------------------------------------------- state

VARIABLES
    definitions,    \* the definitions init() registers ahead of the remote tools
    initialized,    \* McpAgent.initialized
    tools,          \* McpAgent.tools, in insertion order
    state,          \* McpAgent.state
    env,            \* McpAgent.env, as an index of Envs (0: not yet assigned)
    executionCtx,   \* McpAgent.executionCtx, as the index of the call it came with
    sseSessions,    \* the keys of McpAgent.sseSessions
    wsSessions,     \* McpAgent.wsSessions, each session named by the call that made it
    sse,            \* per issued identifier: the stream, transport and server made for it
    calls,          \* the calls started so far, each with the await it is suspended at
    initRuns,       \* how many times init() has been entered
    setStateLog,    \* the setState calls so far: who called, and with what
    hookLog,        \* the onStateUpdate calls so far: the value passed
    handlerLog,     \* the tool handler invocations so far
    serverCloses,   \* how many server-initiated transport closes have happened
    ws,             \* per accepted socket: the socket, transport and server made for it
    instances,      \* McpAgent.instances: per agent class, the instance held for it
    factoryLog,     \* the serve, serveSSE and shared calls so far, with what they returned
    config,         \* the schema entry of one remote-tool configuration
    compiled,       \* what registerRemoteTools derived from it: validator and wire schema
    parsed,         \* the last value given to the validator, and the verdict
    tasks,          \* the long-task object's stored tasks, in creation order
    alarm,          \* the long-task object's alarm: the time it is set for, or none
    now             \* Date.now()

\* The long-task object's storage and the clock it reads.
taskVars == << tasks, alarm, now >>

\* The parts of the program the agent's request handling never touches: the
\* instance table of the class, the schema compiler's inputs and outputs, and
\* the long-task object.
apartVars == << instances, factoryLog, config, compiled, parsed, taskVars >>

vars == << definitions, initialized, tools, state, env, executionCtx, sseSessions, wsSessions,
           sse, calls, initRuns, setStateLog, hookLog, handlerLog, serverCloses, ws,
           apartVars >>

agentVars == << definitions, initialized, tools, state, env, executionCtx, initRuns,
                setStateLog, hookLog >>

\* ---------------------------------------------------------------- messages

\* A protocol message: a call of one tool.
Msg(tool, args) == [tool |-> tool, args |-> args]

NoMsg == Msg("", Undefined)

MsgSamples ==
    { Msg("kv", Obj([action |-> "get"])),
      Msg("echo", Obj([extra |-> "x"])) }

\* The sequences over S of length n.
RECURSIVE SeqsOfLen(_, _)
SeqsOfLen(S, n) ==
    IF n = 0 THEN { <<>> }
    ELSE { Append(q, x) : q \in SeqsOfLen(S, n - 1), x \in S }

\* A request body: text that is not JSON, one message object, or an array.
NoBody == [json |-> "none", single |-> NoMsg, items |-> <<>>]

MalformedBody == [json |-> "malformed", single |-> NoMsg, items |-> <<>>]

ObjectBody(m) == [json |-> "object", single |-> m, items |-> <<>>]

ArrayBody(ms) == [json |-> "array", single |-> NoMsg, items |-> ms]

Bodies ==
    { MalformedBody }
        \cup { ObjectBody(m) : m \in MsgSamples }
        \cup { ArrayBody(ms) : ms \in UNION { SeqsOfLen(MsgSamples, n) : n \in 0..MaxBatch } }

\* A variant that takes only the first message of an array.
MessagesFirstOnly(body) ==
    IF body.json = "array"
    THEN (IF body.items = <<>> THEN <<>> ELSE << Head(body.items) >>)
    ELSE << body.single >>

\* Array.isArray(body) ? body : [body]
Messages(body) == IF body.json = "array" THEN body.items ELSE << body.single >>

\* ------------------------------------------------------------------- calls

NoTool == Tool("", NoSchema, <<"none", 0, 0>>)

\* A call: what it was started with, where it is suspended, what it returned.
\* afterDelete records, at the start of a split-channel request, whether a
\* DELETE of its identifier had been answered 204 before, and live whether its
\* identifier was in the live-session map; handler is how the promise of the
\* handler it called has settled.
Call(kind, pc, e, name, args, sid, method) ==
    [kind |-> kind, pc |-> pc, env |-> e, name |-> name, args |-> args,
     sid |-> sid, method |-> method, body |-> NoBody, tool |-> NoTool,
     status |-> 0, err |-> "", hdr |-> NoId, registered |-> FALSE,
     afterDelete |-> FALSE, live |-> FALSE, handler |-> "", retries |-> 0]

CallIds == 1..Len(calls)

\* The index the next call gets; it also names that call's ExecutionContext.
NewCall == Len(calls) + 1

\* Fewer than n calls have been started.
Started(n) == Len(calls) < n

Finished(c) == c.pc \in {"done", "threw"}

\* The identifiers a DELETE has been answered 204 for.
Deleted204 ==
    { calls[r].sid : r \in { q \in CallIds : /\ calls[q].kind = "sseDelete"
                                              /\ calls[q].pc = "done"
                                              /\ calls[q].status = 204 } }

\* ------------------------------------------------------------------- agent

\* -------------------------------------------------------- the instance table

\* The concrete agent classes of one process: the one the application mounts
\* and another subclass of McpAgent.
AgentClasses == {"MyMCP", "OtherAgent"}

\* No instance: instances.get(AgentClass) is undefined.
NoInstance == 0

\* One call of a static entry point and what it returned.
FactoryCall(entry, class, instance, constructed) ==
    [entry |-> entry, class |-> class, instance |-> instance, constructed |-> constructed]

\* new AgentClass(): instances are named in the order they are constructed.
Constructed(log) == Cardinality({ i \in 1..Len(log) : log[i].constructed })

\* A variant that constructs an instance on every call.
getOrCreateInstanceAlways(table, log, class) ==
    [instances |-> [table EXCEPT ![class] = Constructed(log) + 1],
     instance |-> Constructed(log) + 1, constructed |-> TRUE]

\* getOrCreateInstance(AgentClass): the instance held for the class, made and
\* stored on the first call.
getOrCreateInstance(table, log, class) ==
    IF table[class] = NoInstance
    THEN [instances |-> [table EXCEPT ![class] = Constructed(log) + 1],
          instance |-> Constructed(log) + 1, constructed |-> TRUE]
    ELSE [instances |-> table, instance |-> table[class], constructed |-> FALSE]

\* The table when the module is loaded, before the application mounts anything.
FactoryInit ==
    /\ instances = [c \in AgentClasses |-> NoInstance]
    /\ factoryLog = <<>>

\* The table once the application has mounted its two endpoints:
\* MyMCP.serve("/mcp") and MyMCP.serveSSE("/sse") at module load.
FactoryMounted ==
    /\ instances = [c \in AgentClasses |-> IF c = "MyMCP" THEN 1 ELSE NoInstance]
    /\ factoryLog = << FactoryCall("serve", "MyMCP", 1, TRUE),
                       FactoryCall("serveSSE", "MyMCP", 1, FALSE) >>

\* A configuration whose schema has not been compiled yet.
CompilerWith(entries) ==
    /\ config = entries
    /\ compiled = [done |-> FALSE, validator |-> ZAny, wire |-> EmptyWire]
    /\ parsed = [done |-> FALSE, value |-> StrV, ok |-> FALSE]

\* A configuration with no schema: config.schema ?? {}.
CompilerIdle == CompilerWith(<<>>)

\* registerRemoteTools compiles the configuration's schema into the validator
\* and the wire schema it registers the tool with.
CompileRemote ==
    /\ ~compiled.done
    /\ compiled' = [done |-> TRUE, validator |-> remoteValidator(config),
                    wire |-> remoteJsonSchema(config)]
    /\ UNCHANGED << agentVars, sseSessions, wsSessions, sse, calls, handlerLog,
                    serverCloses, ws, instances, factoryLog, config, parsed, taskVars >>

\* The compiled validator is run on an argument object; the validator keeps
\* nothing from one run to the next, so one run per behaviour shows them all.
ParseRemote(v) ==
    /\ compiled.done
    /\ ~parsed.done
    /\ parsed' = [done |-> TRUE, value |-> v, ok |-> Accepts(compiled.validator, v)]
    /\ UNCHANGED << agentVars, sseSessions, wsSessions, sse, calls, handlerLog,
                    serverCloses, ws, instances, factoryLog, config, compiled, taskVars >>

\* ------------------------------------------------------ the long-task object

\* The object's handlers await nothing but its own storage (and, in POST, the
\* request body before anything is read or written); a durable object delivers
\* no other event while a storage operation is pending, so each handler is one
\* step.

\* The bounds of startTask's clamp and the default duration, in milliseconds.
MinDurationMs == 100

MaxDurationMs == 60000

DefaultDurationMs == 1500

\* No alarm is set.
NoAlarm == 0

\* payload.durationMs as posted: absent, or a number of milliseconds.
NoDuration == [defined |-> FALSE, ms |-> 0]

Duration(ms) == [defined |-> TRUE, ms |-> ms]

DurationSamples == { NoDuration, Duration(50), Duration(90000) }

Min(a, b) == IF a <= b THEN a ELSE b

Max(a, b) == IF a >= b THEN a ELSE b

\* Math.max(100, Math.min(payload.durationMs ?? 1500, 60_000))
durationMs(d) ==
    Max(MinDurationMs, Min(IF d.defined THEN d.ms ELSE DefaultDurationMs, MaxDurationMs))

\* A stored task as startTask writes it.
StoredTask(runAt, duration) ==
    [status |-> "running", runAt |-> runAt, durationMs |-> duration, result |-> FALSE]

TaskIds == 1..Len(tasks)

Running == { id \in TaskIds : tasks[id].status = "running" }

\* The object as created: no task stored, no alarm set.
LongTaskIdle ==
    /\ tasks = <<>>
    /\ alarm = NoAlarm
    /\ now = 0

\* state.storage.setAlarm(runAt): the object has one alarm; setting it
\* replaces the one that was set.
setAlarm(current, runAt) == runAt

\* POST /task: startTask(payload) stores a running task due at now + duration
\* and sets the alarm for that time.
TaskStart(d) ==
    /\ Len(tasks) < MaxTasks
    /\ LET runAt == now + durationMs(d)
       IN  /\ tasks' = Append(tasks, StoredTask(runAt, durationMs(d)))
           /\ alarm' = setAlarm(alarm, runAt)
    /\ UNCHANGED << agentVars, sseSessions, wsSessions, sse, calls, handlerLog,
                    serverCloses, ws, instances, factoryLog, config, compiled, parsed, now >>

\* DELETE /task/:id of a stored task: status = "cancelled", whatever it was.
TaskCancel(id) ==
    /\ id \in TaskIds
    /\ tasks' = [tasks EXCEPT ![id].status = "cancelled"]
    /\ UNCHANGED << agentVars, sseSessions, wsSessions, sse, calls, handlerLog,
                    serverCloses, ws, instances, factoryLog, config, compiled, parsed,
                    alarm, now >>

\* The earliest runAt among the tasks in S.
Earliest(S) == CHOOSE t \in { tasks[id].runAt : id \in S } :
                   \A id \in S : t <= tasks[id].runAt

\* The alarm fires, at or after the time it was set for: alarm() completes the
\* running tasks that are due and sets the alarm for the earliest of the others.
AlarmFire ==
    /\ alarm # NoAlarm
    /\ now >= alarm
    /\ LET due == { id \in Running : tasks[id].runAt <= now }
           later == Running \ due
       IN  /\ tasks' = [id \in TaskIds |->
                           IF id \in due
                           THEN [tasks[id] EXCEPT !.status = "completed", !.result = TRUE]
                           ELSE tasks[id]]
           /\ alarm' = IF later # {} THEN setAlarm(NoAlarm, Earliest(later)) ELSE NoAlarm
    /\ UNCHANGED << agentVars, sseSessions, wsSessions, sse, calls, handlerLog,
                    serverCloses, ws, instances, factoryLog, config, compiled, parsed, now >>

\* The instants at which something is due.
Instants == { tasks[id].runAt : id \in TaskIds } \cup ({alarm} \ {NoAlarm})

\* Time passes, up to an instant at which something is due.
Tick(t) ==
    /\ t \in Instants
    /\ t > now
    /\ now' = t
    /\ UNCHANGED << agentVars, sseSessions, wsSessions, sse, calls, handlerLog,
                    serverCloses, ws, instances, factoryLog, config, compiled, parsed,
                    tasks, alarm >>

\* The agent as constructed, of a class whose init() registers defs.
AgentInit(defs) ==
    /\ definitions = defs
    /\ initialized = FALSE
    /\ tools = <<>>
    /\ state = InitialState
    /\ env = 0
    /\ executionCtx = 0
    /\ sseSessions = {}
    /\ wsSessions = {}
    /\ sse = <<>>
    /\ calls = <<>>
    /\ initRuns = 0
    /\ setStateLog = <<>>
    /\ hookLog = <<>>
    /\ handlerLog = <<>>
    /\ serverCloses = 0
    /\ ws = <<>>

\* The agent of a mounted application, of a class whose init() registers defs.
InitWith(defs) == AgentInit(defs) /\ FactoryMounted /\ CompilerIdle /\ LongTaskIdle

\* MyMCP as constructed.
Init == InitWith(BuiltinTools)

\* One call of a static entry point of a class: each goes through
\* getOrCreateInstance and closes over, or returns, the instance.
Enter(entry, class) ==
    LET g == getOrCreateInstance(instances, factoryLog, class)
    IN  /\ instances' = g.instances
        /\ factoryLog' = Append(factoryLog, FactoryCall(entry, class, g.instance, g.constructed))
        /\ UNCHANGED << agentVars, sseSessions, wsSessions, sse, calls, handlerLog,
                        serverCloses, ws, config, compiled, parsed, taskVars >>

\* AgentClass.serve(endpoint)
Serve(class) == Enter("serve", class)

\* AgentClass.serveSSE(endpoint)
ServeSSE(class) == Enter("serveSSE", class)

\* AgentClass.shared()
Shared(class) == Enter("shared", class)

\* MyMCP.init() with this.env = Envs[e]: the built-in tools, then the remote ones.
init(reg, e) ==
    LET b == registerAll(reg, definitions)
    IN  IF b.threw
        THEN [threw |-> TRUE, tools |-> b.tools, setState |-> FALSE,
              next |-> InitialState]
        ELSE registerRemoteTools(b.tools, e)

\* A variant that never looks at the flag.
NeedsInitAlways == TRUE

\* if (!this.initialized)
NeedsInit == ~initialized

\* onStateUpdate(next), seen as the log of the values it was called with.
onStateUpdate(log, next) == Append(log, next)

\* setState(next): replace the state, then notify.
setState(by, next) ==
    /\ state' = next
    /\ setStateLog' = Append(setStateLog, [by |-> by, next |-> next])
    /\ hookLog' = onStateUpdate(hookLog, next)

\* ensureInitialized(env, ctx) up to its first suspension: the assignments of
\* env and executionCtx and, when the flag is unset, the synchronous run of
\* init() (registerRemoteTools contains no await).
ensureInitialized(e, c) ==
    /\ env' = e
    /\ executionCtx' = c
    /\ UNCHANGED << definitions, initialized >>
    /\ IF NeedsInit
       THEN LET r == init(tools, e)
            IN  /\ initRuns' = initRuns + 1
                /\ tools' = r.tools
                /\ IF r.setState
                   THEN setState("init", r.next)
                   ELSE UNCHANGED << state, setStateLog, hookLog >>
       ELSE UNCHANGED << initRuns, tools, state, setStateLog, hookLog >>

\* Where the caller of ensureInitialized is left by that first part: failed
\* with init()'s error, awaiting init(), or awaiting the resolved promise.
EnsurePc(e) ==
    IF ~NeedsInit THEN "ensured"
    ELSE IF init(tools, e).threw THEN "threw" ELSE "awaitInit"

EnsureErr(e) == IF NeedsInit /\ init(tools, e).threw THEN "duplicate" ELSE ""

\* A new call whose first statement is await ensureInitialized(env, ctx).
StartEnsured(kind, e, name, args) ==
    /\ ensureInitialized(e, NewCall)
    /\ calls' = Append(calls,
                       [Call(kind, EnsurePc(e), e, name, args, NoId, "")
                            EXCEPT !.err = EnsureErr(e)])

\* await this.init() resumes: this.initialized = true.
InitResume(r) ==
    /\ r \in CallIds
    /\ calls[r].pc = "awaitInit"
    /\ initialized' = TRUE
    /\ calls' = [calls EXCEPT ![r].pc = "ensured"]
    /\ UNCHANGED << definitions, tools, state, env, executionCtx, sseSessions,
                    wsSessions, sse, initRuns, setStateLog, hookLog, handlerLog,
                    serverCloses, ws, apartVars >>

\* ready(env, ctx)
StartReady(e) ==
    /\ StartEnsured("ready", e, "", Undefined)
    /\ UNCHANGED << sseSessions, wsSessions, sse, handlerLog, serverCloses, ws, apartVars >>

ReadyReturn(r) ==
    /\ r \in CallIds
    /\ calls[r].kind = "ready"
    /\ calls[r].pc = "ensured"
    /\ calls' = [calls EXCEPT ![r].pc = "done"]
    /\ UNCHANGED << agentVars, sseSessions, wsSessions, sse, handlerLog, serverCloses, ws, apartVars >>

\* setState(next) called by the agent's own code outside init().
SetState(next) ==
    /\ Cardinality({ i \in 1..Len(setStateLog) : setStateLog[i].by = "agent" }) < MaxSetState
    /\ setState("agent", next)
    /\ UNCHANGED << definitions, initialized, tools, env, executionCtx, sseSessions,
                    wsSessions, sse, calls, initRuns, handlerLog, serverCloses, ws, apartVars >>


\* ---------------------------------------------------------------- handlers

\* A variant that hands the handler the state captured with the server.
HandlerStateAtCreation(created) == created

\* state: this.state, read when the handler is called; created is the state
\* the agent had when the calling server was created.
HandlerState(created) == state

\* One handler invocation: who invoked it (a call of invokeTool, or a session's
\* server for its req-th message), the tool, the params object it was passed,
\* and how many setState calls had been made before.
Invocation(via, by, req, tool, args, e, c, st) ==
    [via |-> via, by |-> by, req |-> req, tool |-> tool, args |-> args, env |-> e,
     ctx |-> c, state |-> st, seen |-> Len(setStateLog)]

\* The tool names and argument objects invokeTool is called with.
InvokeNames == {"kv", "echo", "missing-tool"}

\* invokeTool(name, args, request, env, ctx)
StartInvoke(e, name, args) ==
    /\ StartEnsured("invoke", e, name, args)
    /\ UNCHANGED << sseSessions, wsSessions, sse, handlerLog, serverCloses, ws, apartVars >>

\* A variant that validates the arguments before it resolves the name: an
\* absent argument object fails validation whether or not the tool exists.
InvokeResolveValidatingFirst(r) ==
    /\ r \in CallIds
    /\ calls[r].kind = "invoke"
    /\ calls[r].pc = "ensured"
    /\ calls' = [calls EXCEPT ![r].pc = "threw",
                              ![r].err = IF calls[r].args.defined /\ ~Has(tools, calls[r].name)
                                         THEN "notfound" ELSE "validation"]
    /\ UNCHANGED << agentVars, sseSessions, wsSessions, sse, handlerLog, serverCloses, ws, apartVars >>

\* const parsedArgs = tool.schema ? await tool.schema.parseAsync(args ?? {}) : args ?? {}
\* for a tool with no schema, followed at once by the handler call.
InvokeResolve(r) ==
    /\ r \in CallIds
    /\ calls[r].kind = "invoke"
    /\ calls[r].pc = "ensured"
    /\ IF ~Has(tools, calls[r].name)
       THEN /\ calls' = [calls EXCEPT ![r].pc = "threw", ![r].err = "notfound"]
            /\ UNCHANGED handlerLog
       ELSE LET tool == Get(tools, calls[r].name)
            IN  IF tool.schema.present
                THEN /\ calls' = [calls EXCEPT ![r].pc = "parsing", ![r].tool = tool]
                     /\ UNCHANGED handlerLog
                ELSE /\ calls' = [calls EXCEPT ![r].pc = "done", ![r].tool = tool]
                     /\ handlerLog' =
                            Append(handlerLog,
                                   Invocation("invoke", r, 0, tool.name,
                                              OrEmpty(calls[r].args), env,
                                              executionCtx, HandlerState(state)))
    /\ UNCHANGED << agentVars, sseSessions, wsSessions, sse, serverCloses, ws, apartVars >>

\* parseAsync has settled: a rejection propagates, otherwise the handler is
\* called with this.env, this.state and this.executionCtx as they are now.
InvokeParsed(r) ==
    /\ r \in CallIds
    /\ calls[r].kind = "invoke"
    /\ calls[r].pc = "parsing"
    /\ LET tool == calls[r].tool
           o == OrEmpty(calls[r].args).obj
       IN  IF ParseOk(tool.schema, o)
           THEN /\ calls' = [calls EXCEPT ![r].pc = "done"]
                /\ handlerLog' =
                       Append(handlerLog,
                              Invocation("invoke", r, 0, tool.name,
                                         Obj(Parsed(tool.schema, o)), env,
                                         executionCtx, HandlerState(state)))
           ELSE /\ calls' = [calls EXCEPT ![r].pc = "threw", ![r].err = "validation"]
                /\ UNCHANGED handlerLog
    /\ UNCHANGED << agentVars, sseSessions, wsSessions, sse, serverCloses, ws, apartVars >>

\* The kv handler throws before it reaches the binding: get, put and delete
\* need a key.
HandlerThrows(tool, o) ==
    /\ tool = "kv"
    /\ "action" \in DOMAIN o
    /\ o["action"] \in {"get", "put", "delete"}
    /\ "key" \notin DOMAIN o

\* The arguments the handler of call r was called with.
HandlerArgs(r) ==
    IF calls[r].tool.schema.present
    THEN Parsed(calls[r].tool.schema, OrEmpty(calls[r].args).obj)
    ELSE OrEmpty(calls[r].args).obj

\* The promise of the handler invokeTool called settles: rejected when the
\* handler threw, else resolved or rejected as the binding it awaits does.
HandlerSettle(r, ok) ==
    /\ r \in CallIds
    /\ calls[r].kind = "invoke"
    /\ calls[r].pc = "done"
    /\ calls[r].handler = ""
    /\ ok => ~HandlerThrows(calls[r].tool.name, HandlerArgs(r))
    /\ calls' = [calls EXCEPT ![r].handler = IF ok THEN "resolved" ELSE "rejected"]
    /\ UNCHANGED << agentVars, sseSessions, wsSessions, sse, handlerLog, serverCloses, ws, apartVars >>

\* A variant of the route that calls the handler once more when it failed.
ApiToolRespondRetrying(r) ==
    /\ r \in CallIds
    /\ calls[r].kind = "invoke"
    /\ calls[r].status = 0
    /\ \/ calls[r].pc = "threw"
       \/ calls[r].pc = "done" /\ calls[r].handler # ""
    /\ IF calls[r].handler = "rejected" /\ calls[r].retries = 0
       THEN /\ calls' = [calls EXCEPT ![r].handler = "", ![r].retries = 1]
            /\ handlerLog' =
                   Append(handlerLog,
                          Invocation("invoke", r, 0, calls[r].tool.name, Obj(HandlerArgs(r)),
                                     env, executionCtx, HandlerState(state)))
       ELSE /\ calls' = [calls EXCEPT ![r].status = IF calls[r].handler = "resolved"
                                                     THEN 200 ELSE 400]
            /\ UNCHANGED handlerLog
    /\ UNCHANGED << agentVars, sseSessions, wsSessions, sse, serverCloses, ws, apartVars >>

\* app.post("/api/tools/:name") resumes after await agent.invokeTool(...): the
\* result as JSON, or 400 with the message of whatever invokeTool rejected with
\* (the handler's rejection is invokeTool's, which returns the handler's
\* promise).
ApiToolRespond(r) ==
    /\ r \in CallIds
    /\ calls[r].kind = "invoke"
    /\ calls[r].status = 0
    /\ \/ calls[r].pc = "threw"
       \/ calls[r].pc = "done" /\ calls[r].handler # ""
    /\ calls' = [calls EXCEPT
                    ![r].status = IF calls[r].pc = "done" /\ calls[r].handler = "resolved"
                                  THEN 200 ELSE 400,
                    ![r].err = IF calls[r].pc = "done" /\ calls[r].handler = "rejected"
                               THEN "handler" ELSE @]
    /\ UNCHANGED << agentVars, sseSessions, wsSessions, sse, handlerLog, serverCloses, ws, apartVars >>

\* ------------------------------------------------------------ split channel

SessionFrame(id) == << "session", [session |-> id, request |-> 0, outcome |-> ""] >>

DataFrame(result) == << "data", result >>

\* The comment line the interval callback sends.
HeartbeatFrame == << "heartbeat", [session |-> NoId, request |-> 0, outcome |-> ""] >>

\* What handleSseRequest makes for one new identifier: the stream with its
\* first frame enqueued, the transport, and the server createServer(env, ctx)
\* returns, connected (connect attaches the inbound callback and starts the
\* transport).  starts counts the calls of start(), sends lists the calls of
\* send(), beats and lateBeats count the runs of the interval callback and
\* those of them that found the stream no longer open.
NewSession(id, e, c) ==
    [stream |-> "open", frames |-> << SessionFrame(id) >>, heartbeat |-> FALSE,
     onmessage |-> TRUE, inbox |-> <<>>, handled |-> 0, pending |-> <<>>,
     srvTools |-> tools, srvEnv |-> e, srvCtx |-> c, srvState |-> state,
     oncloseCalls |-> 0, serverClosed |-> FALSE, serverInitiated |-> FALSE,
     sendErrors |-> 0, started |-> TRUE, starts |-> 1, sends |-> <<>>,
     beats |-> 0, lateBeats |-> 0]

SessionIds == 1..Len(sse)

\* The identifiers a request path may carry.
PathIds == SessionIds \cup {NoId, BogusId}

\* A variant that finds every session ever made.
LookupStale(sid) == sid \in SessionIds

\* this.sseSessions.get(sessionId)
Lookup(sid) == sid \in sseSessions

\* A variant in which every session delivers to the first transport made.
TransportOfFirst(sid) == 1

\* The transport a looked-up session delivers to.
TransportOf(sid) == sid

\* closeStream(): controller.close(), whose throw on a stream that is no
\* longer open is caught.
closeStream(st) == IF st = "open" THEN "closed" ELSE st

\* WorkerSseTransport.close(): closeStream(), then onclose.
transportClose(s) ==
    [s EXCEPT !.stream = closeStream(s.stream), !.oncloseCalls = @ + 1]

\* cleanup() up to its first suspension: clearInterval, then transport.close().
cleanupBegin(s) == transportClose([s EXCEPT !.heartbeat = FALSE])

\* A variant that puts the chunk ahead of those already enqueued.
sendChunkFirst(s, frame) ==
    IF s.stream = "open"
    THEN [s EXCEPT !.frames = << frame >> \o @]
    ELSE [s EXCEPT !.sendErrors = @ + 1]

\* sendChunk(chunk): enqueue on the controller, which throws once the stream
\* is closed or cancelled.
sendChunk(s, frame) ==
    IF s.stream = "open"
    THEN [s EXCEPT !.frames = Append(@, frame)]
    ELSE [s EXCEPT !.sendErrors = @ + 1]

\* The session's close path has run on s: cleanup() has cleared the timer and
\* closed the transport.
ClosePathRun(s) == s.oncloseCalls > 0 /\ ~s.heartbeat

\* WorkerSseTransport.receive(message) for each message in turn: the inbound
\* callback gets it, or it is dropped when no callback is attached.  closed
\* records whether the session's close path had run by then.
RECURSIVE receiveAll(_, _, _)
receiveAll(s, from, msgs) ==
    IF msgs = <<>> THEN s
    ELSE receiveAll(IF s.onmessage
                    THEN [s EXCEPT !.inbox = Append(@, [from |-> from, msg |-> Head(msgs),
                                                        closed |-> ClosePathRun(s)])]
                    ELSE s,
                    from, Tail(msgs))

\* GET with no identifier: await ensureInitialized(env, ctx).
StartSseGet(e) ==
    /\ StartEnsured("sseGet", e, "", Undefined)
    /\ UNCHANGED << sseSessions, wsSessions, sse, handlerLog, serverCloses, ws, apartVars >>

\* id = randomUUID(); the stream, transport and server; await server.connect.
SseOpen(r) ==
    /\ r \in CallIds
    /\ calls[r].kind = "sseGet"
    /\ calls[r].pc = "ensured"
    /\ LET id == Len(sse) + 1
       IN  /\ sse' = Append(sse, NewSession(id, calls[r].env, r))
           /\ calls' = [calls EXCEPT ![r].pc = "connecting", ![r].sid = id]
    /\ UNCHANGED << agentVars, sseSessions, wsSessions, handlerLog, serverCloses, ws, apartVars >>

\* A variant that starts the map afresh with the new session.
SseRegisterResetting(r) ==
    /\ r \in CallIds
    /\ calls[r].kind = "sseGet"
    /\ calls[r].pc = "connecting"
    /\ LET id == calls[r].sid
       IN  /\ sse' = [sse EXCEPT ![id].heartbeat = TRUE]
           /\ sseSessions' = {id}
           /\ calls' = [calls EXCEPT ![r].pc = "done", ![r].status = 200,
                                     ![r].hdr = id,
                                     ![r].registered = (id \in sseSessions')]
    /\ UNCHANGED << agentVars, wsSessions, handlerLog, serverCloses, ws, apartVars >>

\* setInterval, this.sseSessions.set(id, ...), and the 200 response with the
\* x-mcp-session header.
SseRegister(r) ==
    /\ r \in CallIds
    /\ calls[r].kind = "sseGet"
    /\ calls[r].pc = "connecting"
    /\ LET id == calls[r].sid
       IN  /\ sse' = [sse EXCEPT ![id].heartbeat = TRUE]
           /\ sseSessions' = sseSessions \cup {id}
           /\ calls' = [calls EXCEPT ![r].pc = "done", ![r].status = 200,
                                     ![r].hdr = id,
                                     ![r].registered = (id \in sseSessions')]
    /\ UNCHANGED << agentVars, wsSessions, handlerLog, serverCloses, ws, apartVars >>

\* A request that is not a GET without identifier, up to its first suspension
\* or its response: 400 without identifier, 404 without session.
NewRequest(kind, sid, method) ==
    [Call(kind, "done", 0, "", Undefined, sid, method)
        EXCEPT !.afterDelete = (sid \in Deleted204), !.live = (sid \in sseSessions)]

StartSsePost(sid) ==
    /\ sid \in PathIds
    /\ LET c == NewRequest("ssePost", sid, "POST")
       IN  calls' = Append(calls,
                IF sid = NoId THEN [c EXCEPT !.status = 400]
                ELSE IF ~Lookup(sid) THEN [c EXCEPT !.status = 404]
                ELSE [c EXCEPT !.pc = "reading"])
    /\ UNCHANGED << agentVars, sseSessions, wsSessions, sse, handlerLog, serverCloses, ws, apartVars >>

\* await request.json() has settled: the messages are delivered in order.
SsePostDeliver(r, body) ==
    /\ r \in CallIds
    /\ calls[r].kind = "ssePost"
    /\ calls[r].pc = "reading"
    /\ IF body.json = "malformed"
       THEN /\ calls' = [calls EXCEPT ![r].pc = "threw", ![r].err = "json",
                                      ![r].body = body]
            /\ UNCHANGED sse
       ELSE /\ calls' = [calls EXCEPT ![r].pc = "done", ![r].status = 200,
                                      ![r].body = body]
            /\ sse' = [sse EXCEPT ![TransportOf(calls[r].sid)] =
                                      receiveAll(@, r, Messages(body))]
    /\ UNCHANGED << agentVars, sseSessions, wsSessions, handlerLog, serverCloses, ws, apartVars >>

\* The methods of the requests that are neither POST nor DELETE: a GET that
\* carries an identifier, and a method the endpoint does not support.
OtherMethods == {"GET", "PUT"}

\* A request that is not a GET without identifier, a POST or a DELETE: 400
\* without identifier, 404 without session, else 405.
StartSseOther(sid, method) ==
    /\ sid \in PathIds
    /\ method \in OtherMethods
    /\ method = "GET" => sid # NoId
    /\ LET c == NewRequest("sseOther", sid, method)
       IN  calls' = Append(calls,
                IF sid = NoId THEN [c EXCEPT !.status = 400]
                ELSE IF ~Lookup(sid) THEN [c EXCEPT !.status = 404]
                ELSE [c EXCEPT !.status = 405])
    /\ UNCHANGED << agentVars, sseSessions, wsSessions, sse, handlerLog, serverCloses, ws, apartVars >>

\* DELETE: await session.close(), suspended in cleanup at await transport.close().
StartSseDelete(sid) ==
    /\ sid \in PathIds
    /\ LET c == NewRequest("sseDelete", sid, "DELETE")
       IN  IF sid = NoId
           THEN /\ calls' = Append(calls, [c EXCEPT !.status = 400])
                /\ UNCHANGED sse
           ELSE IF ~Lookup(sid)
           THEN /\ calls' = Append(calls, [c EXCEPT !.status = 404])
                /\ UNCHANGED sse
           ELSE /\ calls' = Append(calls, [c EXCEPT !.pc = "closingTransport"])
                /\ sse' = [sse EXCEPT ![sid] = cleanupBegin(@)]
    /\ UNCHANGED << agentVars, sseSessions, wsSessions, handlerLog, serverCloses, ws, apartVars >>

\* The consumer cancels a stream it was handed: the cancel callback closes the
\* session it finds, suspended like DELETE, or only deletes the key.
StartCancel(sid) ==
    /\ sid \in SessionIds
    /\ sse[sid].stream = "open"
    /\ \E g \in CallIds : calls[g].kind = "sseGet" /\ calls[g].pc = "done"
                          /\ calls[g].hdr = sid
    /\ LET c == NewRequest("cancel", sid, "")
           cancelled == [sse[sid] EXCEPT !.stream = "cancelled"]
       IN  IF Lookup(sid)
           THEN /\ calls' = Append(calls, [c EXCEPT !.pc = "closingTransport"])
                /\ sse' = [sse EXCEPT ![sid] = cleanupBegin(cancelled)]
                /\ UNCHANGED sseSessions
           ELSE /\ calls' = Append(calls, c)
                /\ sse' = [sse EXCEPT ![sid] = cancelled]
                /\ sseSessions' = sseSessions \ {sid}
    /\ UNCHANGED << agentVars, wsSessions, handlerLog, serverCloses, ws, apartVars >>

\* cleanup() resumes after transport.close(): await server.close().
CleanupServer(r) ==
    /\ r \in CallIds
    /\ calls[r].kind \in {"sseDelete", "cancel"}
    /\ calls[r].pc = "closingTransport"
    /\ sse' = [sse EXCEPT ![calls[r].sid].serverClosed = TRUE]
    /\ calls' = [calls EXCEPT ![r].pc = "closingServer"]
    /\ UNCHANGED << agentVars, sseSessions, wsSessions, handlerLog, serverCloses, ws, apartVars >>

\* A variant that answers without deleting the key.
CleanupFinishKeeping(r) ==
    /\ r \in CallIds
    /\ calls[r].kind \in {"sseDelete", "cancel"}
    /\ calls[r].pc = "closingServer"
    /\ calls' = [calls EXCEPT ![r].pc = "done",
                              ![r].status = IF calls[r].kind = "sseDelete" THEN 204 ELSE 0]
    /\ UNCHANGED << agentVars, sseSessions, wsSessions, sse, handlerLog, serverCloses, ws, apartVars >>

\* session.close() has settled: this.sseSessions.delete(id), and 204 to a DELETE.
CleanupFinish(r) ==
    /\ r \in CallIds
    /\ calls[r].kind \in {"sseDelete", "cancel"}
    /\ calls[r].pc = "closingServer"
    /\ sseSessions' = sseSessions \ {calls[r].sid}
    /\ calls' = [calls EXCEPT ![r].pc = "done",
                              ![r].status = IF calls[r].kind = "sseDelete" THEN 204 ELSE 0]
    /\ UNCHANGED << agentVars, wsSessions, sse, handlerLog, serverCloses, ws, apartVars >>

\* The interval callback runs: sendChunk of a heartbeat comment.
Heartbeat(sid) ==
    /\ sid \in SessionIds
    /\ sse[sid].heartbeat
    /\ sse[sid].beats < MaxHeartbeats
    /\ sse' = [sse EXCEPT ![sid] =
                   [sendChunk(@, HeartbeatFrame)
                       EXCEPT !.beats = @ + 1,
                              !.lateBeats = IF sse[sid].stream = "open" THEN @ ELSE @ + 1]]
    /\ UNCHANGED << agentVars, sseSessions, wsSessions, calls, handlerLog, serverCloses, ws, apartVars >>

\* WorkerSseTransport.start() called once more on a session's transport.
SseStartAgain(sid) ==
    /\ sid \in SessionIds
    /\ sse[sid].starts < MaxStarts
    /\ sse' = [sse EXCEPT ![sid].started = TRUE, ![sid].starts = @ + 1]
    /\ UNCHANGED << agentVars, sseSessions, wsSessions, calls, handlerLog, serverCloses, ws, apartVars >>

\* The server closes a live session's transport on its own:
\* WorkerSseTransport.close() called outside the session's cleanup.
ServerClose(sid) ==
    /\ serverCloses < MaxServerClose
    /\ sid \in SessionIds
    /\ Lookup(sid)
    /\ sse' = [sse EXCEPT ![sid] = [transportClose(@) EXCEPT !.serverInitiated = TRUE]]
    /\ serverCloses' = serverCloses + 1
    /\ UNCHANGED << agentVars, sseSessions, wsSessions, calls, handlerLog, ws, apartVars >>


\* --------------------------------------------------------- session servers

\* The callback createServer registers for one tool, called with args:
\* parsedArgs = tool.schema ? await tool.schema.parseAsync(args) : (args ?? {}).
\* TRUE when the handler gets called.
CallbackOk(tool, args) ==
    IF tool.schema.present THEN args.defined /\ ParseOk(tool.schema, args.obj) ELSE TRUE

CallbackArgs(tool, args) ==
    IF tool.schema.present THEN Obj(Parsed(tool.schema, args.obj)) ELSE OrEmpty(args)

\* A session's server takes the next message its transport delivered: a call of
\* a tool it has registered runs that tool's callback, and the outcome waits to
\* be sent.
SessionDispatch(sid) ==
    /\ sid \in SessionIds
    /\ sse[sid].handled < Len(sse[sid].inbox)
    /\ LET s == sse[sid]
           n == s.handled + 1
           m == s.inbox[n].msg
           runs == Has(s.srvTools, m.tool) /\ CallbackOk(Get(s.srvTools, m.tool), m.args)
       IN  /\ sse' = [sse EXCEPT ![sid].handled = n,
                                 ![sid].pending =
                                     Append(@, [session |-> sid, request |-> n,
                                                outcome |-> IF runs THEN "result" ELSE "error"])]
           /\ IF runs
              THEN handlerLog' =
                       Append(handlerLog,
                              Invocation("sse", sid, n, m.tool,
                                         CallbackArgs(Get(s.srvTools, m.tool), m.args),
                                         s.srvEnv, s.srvCtx, HandlerState(s.srvState)))
              ELSE UNCHANGED handlerLog
    /\ UNCHANGED << agentVars, sseSessions, wsSessions, calls, serverCloses, ws, apartVars >>

\* A sequence without its k-th element.
RemoveAt(q, k) == SubSeq(q, 1, k - 1) \o SubSeq(q, k + 1, Len(q))

\* WorkerSseTransport.send(message): sendChunk of one data frame.
transportSend(s, frame) ==
    [sendChunk(s, frame) EXCEPT !.sends = Append(@, [frame |-> frame, ok |-> s.stream = "open"])]

\* A variant in which every server is connected to the first transport made.
ServerTransportFirst(sid) == 1

\* The transport the server made for a session is connected to:
\* server.connect(transport) with the transport made for the same identifier.
ServerTransport(sid) == sid

\* The server of a session sends one of its waiting outcomes, whichever handler
\* settled first, on the transport it is connected to.
SessionRespond(sid, k) ==
    /\ sid \in SessionIds
    /\ k \in 1..Len(sse[sid].pending)
    /\ LET taken == [sse EXCEPT ![sid].pending = RemoveAt(@, k)]
       IN  sse' = [taken EXCEPT ![ServerTransport(sid)] =
                       transportSend(@, DataFrame(sse[sid].pending[k]))]
    /\ UNCHANGED << agentVars, sseSessions, wsSessions, calls, handlerLog, serverCloses, ws, apartVars >>

\* ------------------------------------------------------------------ duplex

\* handleWebSocketRequest: 426 without the upgrade header, else
\* await ensureInitialized(env, ctx).
StartWs(e, upgrade) ==
    /\ IF upgrade
       THEN StartEnsured("ws", e, "", Undefined)
       ELSE /\ calls' = Append(calls, [Call("ws", "done", e, "", Undefined, NoId, "GET")
                                          EXCEPT !.status = 426])
            /\ UNCHANGED agentVars
    /\ UNCHANGED << sseSessions, wsSessions, sse, handlerLog, serverCloses, ws, apartVars >>

\* What handleWebSocketRequest makes for one upgrade: the accepted server
\* socket, the transport around it and the server createServer(env, ctx)
\* returns.  listeners counts the registrations of the transport's three
\* socket listeners, closeListener is the agent's own close listener, closeDue
\* says that the runtime has a close event to dispatch on the socket, causes
\* collects what has happened to end the connection, received lists the frames
\* the peer has sent.
NewSocket(e, c) ==
    [socket |-> "open", started |-> FALSE, starts |-> 0, listeners |-> 0,
     onmessage |-> TRUE, frames |-> <<>>, sends |-> <<>>, sendErrors |-> 0,
     inbox |-> <<>>, handled |-> 0, pending |-> <<>>,
     srvTools |-> tools, srvEnv |-> e, srvCtx |-> c, srvState |-> state,
     oncloseCalls |-> 0, onerrorCalls |-> 0, closeListener |-> FALSE,
     closeDue |-> FALSE, closeEvents |-> 0, socketCloses |-> 0,
     serverClosed |-> FALSE, causes |-> {}, received |-> <<>>]

SocketIds == 1..Len(ws)

\* A variant that registers the listeners on every call.
wsStartAlways(s) ==
    [s EXCEPT !.started = TRUE, !.starts = @ + 1, !.listeners = @ + 1]

\* WorkerWebSocketTransport.start(): the three listeners, once.
wsStart(s) ==
    IF s.started
    THEN [s EXCEPT !.starts = @ + 1]
    ELSE [s EXCEPT !.started = TRUE, !.starts = @ + 1, !.listeners = @ + 1]

\* WorkerWebSocketTransport.close(): socket.close(), a throw of which is
\* reported through onerror.
wsTransportClose(s) == [s EXCEPT !.socket = "closed", !.socketCloses = @ + 1]

\* WorkerWebSocketTransport.send(message): socket.send of one frame, which
\* throws on a socket that is no longer open.
wsSend(s, frame) ==
    [(IF s.socket = "open"
      THEN [s EXCEPT !.frames = Append(@, frame)]
      ELSE [s EXCEPT !.sendErrors = @ + 1])
        EXCEPT !.sends = Append(@, [frame |-> frame, ok |-> s.socket = "open"])]

\* The socket pair, the transport and the server; await server.connect, which
\* starts the transport.
WsConnect(r) ==
    /\ r \in CallIds
    /\ calls[r].kind = "ws"
    /\ calls[r].pc = "ensured"
    /\ ws' = Append(ws, wsStart(NewSocket(calls[r].env, r)))
    /\ calls' = [calls EXCEPT ![r].pc = "connecting", ![r].sid = Len(ws) + 1]
    /\ UNCHANGED << agentVars, sseSessions, wsSessions, sse, handlerLog, serverCloses, apartVars >>

\* this.wsSessions.add(session), the agent's close listener, and the 101 response.
WsRegister(r) ==
    /\ r \in CallIds
    /\ calls[r].kind = "ws"
    /\ calls[r].pc = "connecting"
    /\ wsSessions' = wsSessions \cup { calls[r].sid }
    /\ ws' = [ws EXCEPT ![calls[r].sid].closeListener = TRUE]
    /\ calls' = [calls EXCEPT ![r].pc = "done", ![r].status = 101]
    /\ UNCHANGED << agentVars, sseSessions, sse, handlerLog, serverCloses, apartVars >>

\* WorkerWebSocketTransport.start() called once more on a socket's transport.
WsStartAgain(id) ==
    /\ id \in SocketIds
    /\ ws[id].starts < MaxStarts
    /\ ws' = [ws EXCEPT ![id] = wsStart(@)]
    /\ UNCHANGED << agentVars, sseSessions, wsSessions, sse, calls, handlerLog, serverCloses, apartVars >>

\* The frames a peer sends: text that is not JSON, or one protocol message.
WsFrames == { [json |-> FALSE, msg |-> NoMsg] }
                \cup { [json |-> TRUE, msg |-> m] : m \in MsgSamples }

\* A variant whose listener closes the socket on a frame it cannot parse.
WsMessageClosing(id, frame) ==
    /\ id \in SocketIds
    /\ ws[id].closeListener
    /\ ws[id].socket = "open"
    /\ ws[id].listeners > 0
    /\ Len(ws[id].received) < MaxFrames
    /\ ws' = [ws EXCEPT ![id] =
                  [(IF ~frame.json
                    THEN [@ EXCEPT !.onerrorCalls = @ + 1, !.socket = "closed"]
                    ELSE IF @.onmessage
                    THEN [@ EXCEPT !.inbox = Append(@, [from |-> 0, msg |-> frame.msg])]
                    ELSE @)
                      EXCEPT !.received = Append(@, frame)]]
    /\ UNCHANGED << agentVars, sseSessions, wsSessions, sse, calls, handlerLog, serverCloses, apartVars >>

\* A message event on the socket: JSON.parse, then the inbound callback; a
\* parse failure is caught in the listener and goes to onerror.
WsMessage(id, frame) ==
    /\ id \in SocketIds
    /\ ws[id].closeListener
    /\ ws[id].socket = "open"
    /\ ws[id].listeners > 0
    /\ Len(ws[id].received) < MaxFrames
    /\ ws' = [ws EXCEPT ![id] =
                  [(IF ~frame.json
                    THEN [@ EXCEPT !.onerrorCalls = @ + 1]
                    ELSE IF @.onmessage
                    THEN [@ EXCEPT !.inbox = Append(@, [from |-> 0, msg |-> frame.msg])]
                    ELSE @)
                      EXCEPT !.received = Append(@, frame)]]
    /\ UNCHANGED << agentVars, sseSessions, wsSessions, sse, calls, handlerLog, serverCloses, apartVars >>

\* A socket's server takes the next message its transport delivered, as a
\* session's server does.
WsDispatch(id) ==
    /\ id \in SocketIds
    /\ ws[id].handled < Len(ws[id].inbox)
    /\ LET s == ws[id]
           n == s.handled + 1
           m == s.inbox[n].msg
           runs == Has(s.srvTools, m.tool) /\ CallbackOk(Get(s.srvTools, m.tool), m.args)
       IN  /\ ws' = [ws EXCEPT ![id].handled = n,
                               ![id].pending =
                                   Append(@, [session |-> id, request |-> n,
                                              outcome |-> IF runs THEN "result" ELSE "error"])]
           /\ IF runs
              THEN handlerLog' =
                       Append(handlerLog,
                              Invocation("ws", id, n, m.tool,
                                         CallbackArgs(Get(s.srvTools, m.tool), m.args),
                                         s.srvEnv, s.srvCtx, HandlerState(s.srvState)))
              ELSE UNCHANGED handlerLog
    /\ UNCHANGED << agentVars, sseSessions, wsSessions, sse, calls, serverCloses, apartVars >>

\* The server of a socket sends one of its waiting outcomes.
WsRespond(id, k) ==
    /\ id \in SocketIds
    /\ k \in 1..Len(ws[id].pending)
    /\ ws' = [ws EXCEPT ![id] =
                  wsSend([@ EXCEPT !.pending = RemoveAt(@, k)], DataFrame(ws[id].pending[k]))]
    /\ UNCHANGED << agentVars, sseSessions, wsSessions, sse, calls, handlerLog, serverCloses, apartVars >>

\* A close event is dispatched on the server socket: the transport's listener
\* calls onclose, and the agent's listener starts session.close(), which runs
\* up to await transport.close().
wsCloseEvent(id, cause) ==
    /\ ws' = [ws EXCEPT ![id] =
                  [wsTransportClose(@)
                      EXCEPT !.oncloseCalls = @ + ws[id].listeners,
                             !.closeEvents = @ + 1,
                             !.closeDue = FALSE,
                             !.causes = @ \cup cause]]
    /\ calls' = Append(calls, Call("wsClose", "closingTransport", 0, "", Undefined, id, ""))
    /\ UNCHANGED << agentVars, sseSessions, wsSessions, sse, handlerLog, serverCloses, apartVars >>

\* The peer closes the connection.
WsPeerClose(id) ==
    /\ id \in SocketIds
    /\ ws[id].closeListener
    /\ ws[id].socket = "open"
    /\ wsCloseEvent(id, {"peerClose"})

\* The close event the runtime owed after an error or a local close.
WsCloseEvent(id) ==
    /\ id \in SocketIds
    /\ ws[id].closeDue
    /\ wsCloseEvent(id, {})

\* An error event on the socket: the transport's listener calls onerror;
\* nothing else listens for it.  The runtime may or may not follow it with a
\* close event.
WsPeerError(id, followed) ==
    /\ id \in SocketIds
    /\ ws[id].closeListener
    /\ ws[id].socket = "open"
    /\ ws' = [ws EXCEPT ![id].onerrorCalls = @ + ws[id].listeners,
                        ![id].socket = "closed",
                        ![id].closeDue = followed,
                        ![id].causes = @ \cup {"peerError"}]
    /\ UNCHANGED << agentVars, sseSessions, wsSessions, sse, calls, handlerLog, serverCloses, apartVars >>

\* An explicit local close: WorkerWebSocketTransport.close() called on an open
\* connection.  The close event follows if the peer answers the close.
WsLocalClose(id, followed) ==
    /\ id \in SocketIds
    /\ ws[id].closeListener
    /\ ws[id].socket = "open"
    /\ ws' = [ws EXCEPT ![id] = [wsTransportClose(@) EXCEPT !.closeDue = followed,
                                                          !.causes = @ \cup {"localClose"}]]
    /\ UNCHANGED << agentVars, sseSessions, wsSessions, sse, calls, handlerLog, serverCloses, apartVars >>

\* session.close() resumes after transport.close(): await server.close().
WsCloseServer(r) ==
    /\ r \in CallIds
    /\ calls[r].kind = "wsClose"
    /\ calls[r].pc = "closingTransport"
    /\ ws' = [ws EXCEPT ![calls[r].sid].serverClosed = TRUE]
    /\ calls' = [calls EXCEPT ![r].pc = "closingServer"]
    /\ UNCHANGED << agentVars, sseSessions, wsSessions, sse, handlerLog, serverCloses, apartVars >>

\* A variant that leaves the session in the set.
WsCloseFinishKeeping(r) ==
    /\ r \in CallIds
    /\ calls[r].kind = "wsClose"
    /\ calls[r].pc = "closingServer"
    /\ calls' = [calls EXCEPT ![r].pc = "done"]
    /\ UNCHANGED << agentVars, sseSessions, wsSessions, sse, handlerLog, serverCloses, ws, apartVars >>

\* session.close() resumes after server.close(): this.wsSessions.delete(session).
WsCloseFinish(r) ==
    /\ r \in CallIds
    /\ calls[r].kind = "wsClose"
    /\ calls[r].pc = "closingServer"
    /\ wsSessions' = wsSessions \ { calls[r].sid }
    /\ calls' = [calls EXCEPT ![r].pc = "done"]
    /\ UNCHANGED << agentVars, sseSessions, sse, handlerLog, serverCloses, ws, apartVars >>

\* ---------------------------------------------------------- specifications

\* The instance table: the static entry points of two agent classes called in
\* any order, from module load on.
NextFactory ==
    \/ Len(factoryLog) < MaxFactoryCalls /\ \E c \in AgentClasses : Serve(c)
    \/ Len(factoryLog) < MaxFactoryCalls /\ \E c \in AgentClasses : ServeSSE(c)
    \/ Len(factoryLog) < MaxFactoryCalls /\ \E c \in AgentClasses : Shared(c)

\* Module load: the agent class not yet constructed, the table empty.
InitFactory == AgentInit(BuiltinTools) /\ FactoryInit /\ CompilerIdle /\ LongTaskIdle

SpecFactory == InitFactory /\ [][NextFactory]_vars

\* The schema compiler: one configuration's schema compiled, and the compiled
\* validator run on argument objects.
InitCompiler ==
    /\ AgentInit(BuiltinTools)
    /\ FactoryMounted
    /\ LongTaskIdle
    /\ \E entries \in ConfigSchemas : CompilerWith(entries)

NextCompiler ==
    \/ CompileRemote
    \/ \E v \in ArgumentsFor(config) : ParseRemote(v)

SpecCompiler == InitCompiler /\ [][NextCompiler]_vars

\* The steps of a call suspended in or after ensureInitialized.
Resume ==
    \/ \E r \in CallIds : InitResume(r)
    \/ \E r \in CallIds : ReadyReturn(r)
    \/ \E r \in CallIds : InvokeResolve(r)
    \/ \E r \in CallIds : InvokeParsed(r)
    \/ \E r \in CallIds : WsConnect(r)
    \/ \E r \in CallIds : WsRegister(r)
    \/ \E r \in CallIds : SseOpen(r)
    \/ \E r \in CallIds : SseRegister(r)

\* The argument objects of the lazy-initialization specification.
InvokeArgs == { Undefined, Obj([action |-> "get"]), Obj([action |-> "bogus"]) }

\* Lazy initialization: the agent under calls from every entry point that goes
\* through ensureInitialized, in any interleaving.
Next ==
    \/ Started(MaxCalls) /\ \E e \in EnvIds : StartReady(e)
    \/ Started(MaxCalls) /\ \E e \in EnvIds, n \in InvokeNames, a \in InvokeArgs :
                                StartInvoke(e, n, a)
    \/ Started(MaxCalls) /\ \E e \in EnvIds : StartWs(e, TRUE)
    \/ Started(MaxCalls) /\ StartWs(1, FALSE)
    \/ Started(MaxCalls) /\ \E e \in EnvIds : StartSseGet(e)
    \/ Resume

Spec == Init /\ [][Next]_vars

\* The split channel: sessions opened, posted to, deleted, cancelled and closed
\* by the server, in any interleaving.
NextSse ==
    \/ Started(MaxRequests) /\ StartSseGet(2)
    \/ Started(MaxRequests) /\ \E sid \in PathIds : StartSsePost(sid)
    \/ Started(MaxRequests) /\ \E sid \in PathIds : StartSseDelete(sid)
    \/ Started(MaxRequests) /\ \E sid \in SessionIds : StartCancel(sid)
    \/ \E sid \in SessionIds : ServerClose(sid)
    \/ \E r \in CallIds : InitResume(r)
    \/ \E r \in CallIds : SseOpen(r)
    \/ \E r \in CallIds : SseRegister(r)
    \/ \E r \in CallIds, body \in Bodies : SsePostDeliver(r, body)
    \/ \E r \in CallIds : CleanupServer(r)
    \/ \E r \in CallIds : CleanupFinish(r)

SpecSse == Init /\ [][NextSse]_vars


\* The request bodies of the routing specification.
RouteBodies == { MalformedBody, ObjectBody(Msg("kv", Obj([action |-> "get"]))) }

\* Routing on the split-channel endpoint: requests of every method, with and
\* without identifier, to live, closed and never-issued sessions.
NextRoutes ==
    \/ Started(MaxRouteCalls) /\ StartSseGet(1)
    \/ Started(MaxRouteCalls) /\ \E sid \in PathIds : StartSsePost(sid)
    \/ Started(MaxRouteCalls) /\ \E sid \in PathIds : StartSseDelete(sid)
    \/ Started(MaxRouteCalls) /\ \E sid \in PathIds, m \in OtherMethods : StartSseOther(sid, m)
    \/ \E r \in CallIds : InitResume(r)
    \/ \E r \in CallIds : SseOpen(r)
    \/ \E r \in CallIds : SseRegister(r)
    \/ \E r \in CallIds, body \in RouteBodies : SsePostDeliver(r, body)
    \/ \E r \in CallIds : CleanupServer(r)
    \/ \E r \in CallIds : CleanupFinish(r)

SpecRoutes == Init /\ [][NextRoutes]_vars

\* The life of split-channel sessions: opened, kept alive, and closed by
\* DELETE, by cancellation of the stream and by the server.
NextLife ==
    \/ Started(MaxLifeCalls) /\ StartSseGet(1)
    \/ Started(MaxLifeCalls) /\ \E sid \in SessionIds : StartSseDelete(sid)
    \/ Started(MaxLifeCalls) /\ \E sid \in SessionIds : StartCancel(sid)
    \/ \E sid \in SessionIds : ServerClose(sid)
    \/ \E sid \in SessionIds : Heartbeat(sid)
    \/ \E sid \in SessionIds : SseStartAgain(sid)
    \/ \E r \in CallIds : InitResume(r)
    \/ \E r \in CallIds : SseOpen(r)
    \/ \E r \in CallIds : SseRegister(r)
    \/ \E r \in CallIds : CleanupServer(r)
    \/ \E r \in CallIds : CleanupFinish(r)

SpecLife == Init /\ [][NextLife]_vars

\* The life of duplex sessions: accepted, started, and ended by the peer's
\* close, by an error and by a local close.
NextWs ==
    \/ Len(ws) < MaxSockets /\ Started(MaxSockets) /\ StartWs(1, TRUE)
    \/ Started(MaxSockets) /\ StartWs(1, FALSE)
    \/ \E r \in CallIds : InitResume(r)
    \/ \E r \in CallIds : WsConnect(r)
    \/ \E r \in CallIds : WsRegister(r)
    \/ \E id \in SocketIds : WsStartAgain(id)
    \/ \E id \in SocketIds : WsPeerClose(id)
    \/ \E id \in SocketIds, followed \in BOOLEAN : WsPeerError(id, followed)
    \/ \E id \in SocketIds, followed \in BOOLEAN : WsLocalClose(id, followed)
    \/ \E id \in SocketIds : WsCloseEvent(id)
    \/ \E r \in CallIds : WsCloseServer(r)
    \/ \E r \in CallIds : WsCloseFinish(r)

SpecWs == Init /\ [][NextWs]_vars

\* The request bodies of the responses specification: a call the tool's
\* schema accepts and one it rejects.
SessionBodies ==
    { ObjectBody(Msg("kv", Obj([action |-> "get"]))),
      ObjectBody(Msg("kv", Obj([action |-> "bogus"]))) }

\* Responses: requests posted to several sessions, handled by their servers and
\* answered, while sessions are deleted under them.
NextSessions ==
    \/ Started(MaxSessionCalls) /\ StartSseGet(1)
    \/ Started(MaxSessionCalls) /\ \E sid \in SessionIds : StartSsePost(sid)
    \/ Started(MaxSessionCalls) /\ \E sid \in SessionIds : StartSseDelete(sid)
    \/ \E r \in CallIds : InitResume(r)
    \/ \E r \in CallIds : SseOpen(r)
    \/ \E r \in CallIds : SseRegister(r)
    \/ \E r \in CallIds, body \in SessionBodies : SsePostDeliver(r, body)
    \/ \E r \in CallIds : CleanupServer(r)
    \/ \E r \in CallIds : CleanupFinish(r)
    \/ \E sid \in SessionIds : SessionDispatch(sid)
    \/ \E sid \in SessionIds, k \in 1..MaxBatch : SessionRespond(sid, k)

SpecSessions == Init /\ [][NextSessions]_vars

\* The request body of the send-order specification: two calls in one array.
SendBodies ==
    { ArrayBody(<< Msg("kv", Obj([action |-> "get"])), Msg("echo", Obj([extra |-> "x"])) >>) }

\* The frame a peer sends in the send-order specification.
SendFrames == { [json |-> TRUE, msg |-> Msg("kv", Obj([action |-> "get"]))] }

\* No call of the given kind has been started.
NoneStarted(kind) == \A r \in CallIds : calls[r].kind # kind

\* Send order: one split-channel session, given one array of requests, and one
\* socket, given several frames; their servers send the outcomes in the order
\* the handlers settle, between heartbeats and while the session is deleted.
NextSend ==
    \/ NoneStarted("sseGet") /\ StartSseGet(1)
    \/ NoneStarted("ws") /\ StartWs(1, TRUE)
    \/ NoneStarted("ssePost") /\ \E sid \in SessionIds : StartSsePost(sid)
    \/ NoneStarted("sseDelete") /\ \E sid \in SessionIds : StartSseDelete(sid)
    \/ \E r \in CallIds : InitResume(r)
    \/ \E r \in CallIds : SseOpen(r)
    \/ \E r \in CallIds : SseRegister(r)
    \/ \E r \in CallIds, body \in SendBodies : SsePostDeliver(r, body)
    \/ \E r \in CallIds : CleanupServer(r)
    \/ \E r \in CallIds : CleanupFinish(r)
    \/ \E sid \in SessionIds : Heartbeat(sid)
    \/ \E sid \in SessionIds : SessionDispatch(sid)
    \/ \E sid \in SessionIds, k \in 1..MaxBatch : SessionRespond(sid, k)
    \/ \E r \in CallIds : WsConnect(r)
    \/ \E r \in CallIds : WsRegister(r)
    \/ \E id \in SocketIds, frame \in SendFrames : WsMessage(id, frame)
    \/ \E id \in SocketIds : WsDispatch(id)
    \/ \E id \in SocketIds, k \in 1..MaxFrames : WsRespond(id, k)

SpecSend == Init /\ [][NextSend]_vars

\* Inbound frames: one socket given frames that parse and frames that do not,
\* until the peer closes.
NextFrames ==
    \/ NoneStarted("ws") /\ StartWs(1, TRUE)
    \/ \E r \in CallIds : InitResume(r)
    \/ \E r \in CallIds : WsConnect(r)
    \/ \E r \in CallIds : WsRegister(r)
    \/ \E id \in SocketIds, frame \in WsFrames : WsMessage(id, frame)
    \/ \E id \in SocketIds : WsDispatch(id)
    \/ \E id \in SocketIds, k \in 1..MaxFrames : WsRespond(id, k)
    \/ \E id \in SocketIds : WsPeerClose(id)
    \/ \E r \in CallIds : WsCloseServer(r)
    \/ \E r \in CallIds : WsCloseFinish(r)

SpecFrames == Init /\ [][NextFrames]_vars

\* The argument objects of the tool-route specification: one the kv handler
\* takes to the binding, one it throws on, one the schema rejects.
ApiArgs ==
    { Obj([action |-> "get", key |-> "k"]), Obj([action |-> "get"]),
      Obj([action |-> "bogus"]) }

\* The tool route: POST /api/tools/:name for registered and unregistered
\* names, with handlers that resolve, throw and reject.
NextApi ==
    \/ Started(MaxApiCalls) /\ \E n \in {"kv", "missing-tool"}, a \in ApiArgs :
                                   StartInvoke(1, n, a)
    \/ \E r \in CallIds : InitResume(r)
    \/ \E r \in CallIds : InvokeResolve(r)
    \/ \E r \in CallIds : InvokeParsed(r)
    \/ \E r \in CallIds, ok \in BOOLEAN : HandlerSettle(r, ok)
    \/ \E r \in CallIds : ApiToolRespond(r)

SpecApi == Init /\ [][NextApi]_vars

\* The long-task object: tasks started with any durations, cancelled, and
\* completed by the alarm as time passes.
NextTasks ==
    \/ \E d \in DurationSamples : TaskStart(d)
    \/ \E id \in TaskIds : TaskCancel(id)
    \/ AlarmFire
    \/ \E t \in Instants : Tick(t)

SpecTasks == Init /\ [][NextTasks]_vars

\* The registry: an agent class whose init() registers any short list of
\* definitions, with and without schema, two of them under the same name and
\* one under that name in another case; its tools are then invoked directly and
\* through a session's server.
DefSamples ==
    { Tool("kv", BuiltinTools[3].schema, <<"def", 1, 0>>),
      Tool("kv", NoSchema, <<"def", 2, 0>>),
      Tool("KV", NoSchema, <<"def", 3, 0>>) }

DefLists == UNION { SeqsOfLen(DefSamples, n) : n \in 0..MaxDefs }

RegistryNames == {"kv", "KV"}

RegistryArgs == { Undefined, EmptyArgs, Obj([extra |-> "x"]) }

InitRegistry == \E defs \in DefLists : InitWith(defs)

NextRegistry ==
    \/ Started(MaxRegistryCalls) /\ \E n \in RegistryNames, a \in RegistryArgs :
                                        StartInvoke(1, n, a)
    \/ Started(MaxRegistryCalls) /\ StartSseGet(1)
    \/ Started(MaxRegistryCalls) /\ \E sid \in SessionIds : StartSsePost(sid)
    \/ \E r \in CallIds : InitResume(r)
    \/ \E r \in CallIds : InvokeResolve(r)
    \/ \E r \in CallIds : InvokeParsed(r)
    \/ \E r \in CallIds : SseOpen(r)
    \/ \E r \in CallIds : SseRegister(r)
    \/ \E r \in CallIds, n \in RegistryNames, a \in RegistryArgs :
           SsePostDeliver(r, ObjectBody(Msg(n, a)))
    \/ \E sid \in SessionIds : SessionDispatch(sid)

SpecRegistry == InitRegistry /\ [][NextRegistry]_vars

\* The shared state: setState between handler invocations made directly and
\* through the servers of sessions opened before and after it.
StateArgs == Obj([action |-> "get"])

NextState ==
    \/ Started(MaxStateCalls) /\ StartInvoke(1, "kv", StateArgs)
    \/ Started(MaxStateCalls) /\ StartSseGet(2)
    \/ Started(MaxStateCalls) /\ \E sid \in SessionIds : StartSsePost(sid)
    \/ \E next \in StateSamples : SetState(next)
    \/ \E r \in CallIds : InitResume(r)
    \/ \E r \in CallIds : InvokeResolve(r)
    \/ \E r \in CallIds : InvokeParsed(r)
    \/ \E r \in CallIds : SseOpen(r)
    \/ \E r \in CallIds : SseRegister(r)
    \/ \E r \in CallIds : SsePostDeliver(r, ObjectBody(Msg("kv", StateArgs)))
    \/ \E sid \in SessionIds : SessionDispatch(sid)
    \/ \E sid \in SessionIds, k \in 1..MaxBatch : SessionRespond(sid, k)

SpecState == Init /\ [][NextState]_vars


\* ------------------------------------------------------------------ claims

\* The messages call p delivered to the transport of session sid, in order.
MsgsFrom(sid, p) ==
    LET q == SelectSeq(sse[sid].inbox, LAMBDA x : x.from = p)
    IN  [i \in 1..Len(q) |-> q[i].msg]

\* The handler invocations made for call r of invokeTool.
InvocationsOf(r) ==
    { i \in 1..Len(handlerLog) : handlerLog[i].via = "invoke" /\ handlerLog[i].by = r }

\* The handler invocations made by session sid's server for its n-th message.
InvocationsFor(sid, n) ==
    { i \in 1..Len(handlerLog) : /\ handlerLog[i].via = "sse"
                                 /\ handlerLog[i].by = sid
                                 /\ handlerLog[i].req = n }

\* C1: whatever the interleaving of the calls that go through
\* ensureInitialized, init() is run at most once and no call fails with the
\* duplicate-tool error.  Stated for calls whose environment configures no
\* clashing remote tool, so that only the interleaving can make it fail.
C1_InitOnce ==
    (\A r \in CallIds : calls[r].env \in CleanEnvIds)
        => /\ initRuns <= 1
           /\ \A r \in CallIds : calls[r].err # "duplicate"

\* C2: once ensureInitialized has completed (the flag is set), no step of any
\* call changes the registry, enters init() again or repeats its setState and
\* onStateUpdate; the flag stays set.
C2_NoReinit ==
    [][initialized => /\ initialized'
                      /\ tools' = tools
                      /\ initRuns' = initRuns
                      /\ setStateLog' = setStateLog
                      /\ hookLog' = hookLog]_vars

\* A second call, from the other transport, has come through ensureInitialized
\* after the first one completed it.
C2_Witness ==
    /\ initialized
    /\ initRuns = 1
    /\ Len(calls) = 2
    /\ calls[1].kind = "ws" /\ calls[1].pc = "done"
    /\ calls[2].kind = "sseGet" /\ calls[2].pc = "done"
    /\ Len(tools) > Len(BuiltinTools)

\* C3: a session that has been closed, by an answered DELETE, by a finished
\* stream cancellation or by a server-initiated close of its transport, is no
\* longer in the live-session map, so a lookup of it reports not found.
C3_ClosedNotFound ==
    \A sid \in SessionIds :
        ( \/ sse[sid].serverInitiated
          \/ \E r \in CallIds : /\ calls[r].kind = "sseDelete"
                                /\ calls[r].sid = sid
                                /\ calls[r].status = 204
          \/ \E r \in CallIds : /\ calls[r].kind = "cancel"
                                /\ calls[r].sid = sid
                                /\ calls[r].pc = "done" )
            => ~Lookup(sid)

\* C4: an answered GET without identifier carries one fresh identifier in the
\* first frame of its stream and in its x-mcp-session header, the session was
\* in the map when the response was returned, and an answered POST delivers
\* its messages to the inbound callback of the session it names and of no other.
C4_OpenThenDeliver ==
    /\ \A g \in CallIds :
           (calls[g].kind = "sseGet" /\ calls[g].pc = "done")
               => /\ calls[g].status = 200
                  /\ calls[g].hdr \in SessionIds
                  /\ Head(sse[calls[g].hdr].frames) = SessionFrame(calls[g].hdr)
                  /\ calls[g].registered
                  /\ \A h \in CallIds :
                         (h # g /\ calls[h].kind = "sseGet" /\ calls[h].pc = "done")
                             => calls[h].hdr # calls[g].hdr
    /\ \A p \in CallIds :
           (calls[p].kind = "ssePost" /\ calls[p].pc = "done" /\ calls[p].status = 200)
               => /\ calls[p].body.json = "object"
                         => MsgsFrom(calls[p].sid, p) = << calls[p].body.single >>
                  /\ calls[p].body.json = "array" /\ calls[p].body.items # <<>>
                         => MsgsFrom(calls[p].sid, p) # <<>>
                  /\ \A sid \in SessionIds \ {calls[p].sid} : MsgsFrom(sid, p) = <<>>

\* Two sessions are open and a POST to the second one has delivered a message.
C4_Witness ==
    \E p \in CallIds :
        /\ calls[p].kind = "ssePost" /\ calls[p].pc = "done" /\ calls[p].status = 200
        /\ calls[p].sid = 2
        /\ {1, 2} \subseteq sseSessions
        /\ MsgsFrom(2, p) # <<>>
        /\ \E g \in CallIds : calls[g].kind = "sseGet" /\ calls[g].pc = "done"
                              /\ calls[g].hdr = 2

\* C5: a POST or DELETE that starts after a DELETE of its identifier was
\* answered 204 is answered 404 and delivers nothing.
C5_NotFoundAfterDelete ==
    \A r \in CallIds :
        (calls[r].kind \in {"ssePost", "sseDelete"} /\ calls[r].afterDelete)
            => /\ calls[r].pc = "done"
               /\ calls[r].status = 404
               /\ \A sid \in SessionIds : MsgsFrom(sid, r) = <<>>

\* A session was opened, a DELETE of it was answered 204, and a POST to it
\* came afterwards.
C5_Witness ==
    \E d, r \in CallIds :
        /\ calls[d].kind = "sseDelete" /\ calls[d].status = 204
        /\ calls[r].kind = "ssePost" /\ calls[r].afterDelete
        /\ calls[r].sid = calls[d].sid
        /\ calls[r].status = 404

\* C6: an answered POST whose body is an array has delivered exactly the
\* messages of the array, in array order, to the transport of its session; one
\* whose body is a single object has delivered exactly that one.
C6_BatchInOrder ==
    \A p \in CallIds :
        (calls[p].kind = "ssePost" /\ calls[p].pc = "done" /\ calls[p].status = 200)
            => /\ calls[p].body.json \in {"array", "object"}
               /\ calls[p].body.json = "array"
                      => MsgsFrom(calls[p].sid, p) = calls[p].body.items
               /\ calls[p].body.json = "object"
                      => MsgsFrom(calls[p].sid, p) = << calls[p].body.single >>

\* A POST has delivered an array of two different messages.
C6_Witness ==
    \E p \in CallIds :
        /\ calls[p].kind = "ssePost" /\ calls[p].pc = "done" /\ calls[p].status = 200
        /\ calls[p].body.json = "array"
        /\ Len(calls[p].body.items) = 2
        /\ calls[p].body.items[1] # calls[p].body.items[2]
        /\ Len(MsgsFrom(calls[p].sid, p)) = 2

\* The first index of defs whose name an earlier entry already has; 0 if none.
FirstClash(defs) ==
    LET clashes == { j \in 1..Len(defs) : \E i \in 1..(j - 1) : defs[i].name = defs[j].name }
    IN  IF clashes = {} THEN 0
        ELSE CHOOSE j \in clashes : \A k \in clashes : j <= k

\* C7: registering a name that is already registered fails with the
\* duplicate-tool error and leaves the registry as it was: after init() has
\* registered a list of definitions, the registry holds the definitions up to
\* the first repeated name, each name with the first definition given for it,
\* and init() failed exactly when a name was repeated; names that differ only
\* in case are different names.
C7_FirstRegistrationWins ==
    initRuns >= 1
        => LET j == FirstClash(definitions)
           IN  /\ tools = IF j = 0 THEN definitions ELSE SubSeq(definitions, 1, j - 1)
               /\ (calls[1].err = "duplicate") <=> (j # 0)
               /\ \A i \in 1..Len(tools) :
                      \A k \in 1..Len(definitions) :
                          (definitions[k].name = tools[i].name
                           /\ \A m \in 1..(k - 1) : definitions[m].name # tools[i].name)
                              => tools[i] = definitions[k]
               /\ \A r \in CallIds : (r > 1 /\ j # 0 /\ calls[r].kind \in {"invoke", "sseGet"})
                                         => calls[r].err = "duplicate"

\* init() was given two different definitions under one name and has failed on
\* the second; the registry holds the first.
C7_Witness ==
    /\ initRuns >= 1
    /\ Len(definitions) = 2
    /\ definitions[1].name = definitions[2].name
    /\ definitions[1] # definitions[2]
    /\ definitions[1].schema.present
    /\ calls[1].err = "duplicate"
    /\ tools = << definitions[1] >>

\* C8 as stated: an invokeTool call with a name that is not in the registry
\* always ends in the not-found error.
C8_AlwaysNotFound ==
    \A r \in CallIds :
        (calls[r].kind = "invoke" /\ Finished(calls[r]) /\ ~Has(tools, calls[r].name))
            => calls[r].err = "notfound"

\* C8 as amended: an invokeTool call with a name that is not in the registry
\* runs no validator and no handler and never ends in a validation error; once
\* it is past ensureInitialized its next step ends it in the not-found error,
\* and the only other error it can end in is the one init() threw.
C8_NotFoundOnceInitialized ==
    /\ [](\A r \in CallIds :
              (calls[r].kind = "invoke" /\ ~Has(tools, calls[r].name))
                  => /\ calls[r].pc # "parsing"
                     /\ calls[r].pc # "done"
                     /\ InvocationsOf(r) = {}
                     /\ calls[r].pc = "threw" => calls[r].err \in {"notfound", "duplicate"})
    /\ [][\A r \in CallIds :
              (calls[r].kind = "invoke" /\ calls[r].pc = "ensured"
               /\ ~Has(tools, calls[r].name) /\ calls'[r] # calls[r])
                  => calls'[r].pc = "threw" /\ calls'[r].err = "notfound"]_vars

\* An invokeTool call of a missing tool, with arguments no schema of the agent
\* accepts, has ended in the not-found error on an initialized agent.
C8_Witness ==
    \E r \in CallIds :
        /\ calls[r].kind = "invoke"
        /\ calls[r].name = "missing-tool"
        /\ calls[r].args = Obj([action |-> "bogus"])
        /\ initialized
        /\ calls[r].err = "notfound"

\* The definition a registry holds under a name has no schema.
SchemaLess(reg, name) == Has(reg, name) /\ ~Get(reg, name).schema.present

\* What a handler of a tool with no schema is to be given for args.
Unchanged(args, given) ==
    /\ args.defined => given = args
    /\ ~args.defined => given = [defined |-> TRUE, obj |-> <<>>]

\* C9: an invocation of a tool registered without a schema never fails
\* validation, through invokeTool or through a session's server: the handler is
\* called once, with the argument object as given, or with an empty mapping
\* when none was given.
C9_NoSchemaAcceptsAll ==
    /\ \A r \in CallIds :
           (calls[r].kind = "invoke" /\ SchemaLess(tools, calls[r].name))
               => /\ calls[r].err # "validation"
                  /\ calls[r].pc # "parsing"
                  /\ calls[r].pc = "done"
                         => /\ Cardinality(InvocationsOf(r)) = 1
                            /\ \A i \in InvocationsOf(r) :
                                   Unchanged(calls[r].args, handlerLog[i].args)
    /\ \A sid \in SessionIds :
           \A n \in 1..sse[sid].handled :
               SchemaLess(sse[sid].srvTools, sse[sid].inbox[n].msg.tool)
                   => /\ Cardinality(InvocationsFor(sid, n)) = 1
                      /\ \A i \in InvocationsFor(sid, n) :
                             Unchanged(sse[sid].inbox[n].msg.args, handlerLog[i].args)
                      /\ \E k \in 1..Len(sse[sid].pending) :
                             /\ sse[sid].pending[k].request = n
                             /\ sse[sid].pending[k].outcome = "result"

\* A tool with no schema has been invoked once with extra fields and once with
\* no argument object, and its handler was given the one unchanged and an empty
\* mapping for the other.
C9_Witness ==
    \E r, q \in CallIds :
        /\ calls[r].kind = "invoke" /\ calls[r].pc = "done"
        /\ SchemaLess(tools, calls[r].name)
        /\ calls[r].args = Obj([extra |-> "x"])
        /\ \E i \in InvocationsOf(r) : handlerLog[i].args = Obj([extra |-> "x"])
        /\ calls[q].kind = "invoke" /\ calls[q].pc = "done"
        /\ SchemaLess(tools, calls[q].name)
        /\ ~calls[q].args.defined
        /\ \E i \in InvocationsOf(q) : handlerLog[i].args = Obj(<<>>)

\* C10: every setState(next) has called onStateUpdate once, with next, and
\* every handler invocation, made through invokeTool or by a session's server,
\* was given the value of the last setState before it (the constructor's value
\* if there was none), whenever the session was opened.
C10_StateSeenByNextHandler ==
    /\ Len(hookLog) = Len(setStateLog)
    /\ \A i \in 1..Len(setStateLog) : hookLog[i] = setStateLog[i].next
    /\ \A i \in 1..Len(handlerLog) :
           handlerLog[i].state =
               IF handlerLog[i].seen = 0 THEN InitialState
               ELSE setStateLog[handlerLog[i].seen].next

\* The server of a session opened before a setState has called a handler after
\* it, and invokeTool has too.
C10_Witness ==
    /\ \E i \in 1..Len(handlerLog) :
           /\ handlerLog[i].via = "sse"
           /\ handlerLog[i].seen >= 1
           /\ setStateLog[handlerLog[i].seen].by = "agent"
           /\ sse[handlerLog[i].by].srvState # setStateLog[handlerLog[i].seen].next
    /\ \E i \in 1..Len(handlerLog) :
           /\ handlerLog[i].via = "invoke"
           /\ handlerLog[i].seen >= 1
           /\ setStateLog[handlerLog[i].seen].by = "agent"

\* The calls of the static entry points made on a class.
CallsOn(class) == { i \in 1..Len(factoryLog) : factoryLog[i].class = class }

\* C11: whatever sequence of serve, serveSSE and shared calls is made, each
\* class that was called on has had exactly one instance constructed, by its
\* first call; every call on it returned that instance, which is the one the
\* table holds; and calls on two different classes returned different instances.
C11_OneInstancePerClass ==
    /\ \A c \in AgentClasses :
           CallsOn(c) # {}
               => /\ Cardinality({ i \in CallsOn(c) : factoryLog[i].constructed }) = 1
                  /\ instances[c] # NoInstance
                  /\ \A i \in CallsOn(c) : factoryLog[i].instance = instances[c]
    /\ \A c \in AgentClasses : CallsOn(c) = {} => instances[c] = NoInstance
    /\ \A i, j \in 1..Len(factoryLog) :
           factoryLog[i].class # factoryLog[j].class
               => factoryLog[i].instance # factoryLog[j].instance

\* serve, serveSSE and shared have all been called on one class, shared after
\* the other two, and another class has been called on as well.
C11_Witness ==
    /\ \E i, j, k \in CallsOn("MyMCP") :
           /\ i < k /\ j < k
           /\ factoryLog[i].entry = "serve"
           /\ factoryLog[j].entry = "serveSSE"
           /\ factoryLog[k].entry = "shared"
           /\ factoryLog[k].instance = factoryLog[i].instance
    /\ CallsOn("OtherAgent") # {}

\* The names a wire schema's required list holds.
Listed(required) == { required[i] : i \in 1..Len(required) }

\* The names of the properties whose descriptor is not marked optional.
NotOptional(props) == { props[i].key : i \in { j \in 1..Len(props) : ~props[j].field.optional } }

\* At the object level a descriptor compiles to, and at every object level
\* below it, the wire schema requires exactly the properties not marked optional.
RECURSIVE RequiredMatches(_, _)
RequiredMatches(field, w) ==
    CASE field.type = "object" ->
             /\ w.type = "object"
             /\ Listed(w.required) = NotOptional(field.properties)
             /\ Len(w.required) = Cardinality(Listed(w.required))
             /\ Len(w.properties) = Len(field.properties)
             /\ \A i \in 1..Len(field.properties) :
                    /\ w.properties[i].key = field.properties[i].key
                    /\ RequiredMatches(field.properties[i].field, w.properties[i].schema)
      [] field.type = "array" ->
             /\ w.type = "array"
             /\ field.items # <<>> => RequiredMatches(field.items[1], w.items[1])
      [] OTHER -> TRUE

\* Somewhere in v, at an object level of the wire schema, a required name is missing.
RECURSIVE MissesRequired(_, _)
MissesRequired(w, v) ==
    CASE w.type = "object" /\ v.kind = "object" ->
             \/ \E k \in Listed(w.required) : k \notin KeysOf(v)
             \/ \E i \in 1..Len(w.properties) :
                    /\ w.properties[i].key \in KeysOf(v)
                    /\ MissesRequired(w.properties[i].schema, ValueAt(v, w.properties[i].key))
      [] w.type = "array" /\ v.kind = "array" ->
             \E i \in 1..Len(v.elems) : MissesRequired(w.items[1], v.elems[i])
      [] OTHER -> FALSE

\* Every part of v that the wire schema describes has the type it declares.
RECURSIVE WellTyped(_, _)
WellTyped(w, v) ==
    CASE w.type = "" -> TRUE
      [] w.type = "object" ->
             /\ v.kind = "object"
             /\ \A i \in 1..Len(w.properties) :
                    w.properties[i].key \in KeysOf(v)
                        => WellTyped(w.properties[i].schema, ValueAt(v, w.properties[i].key))
      [] w.type = "array" ->
             /\ v.kind = "array"
             /\ \A i \in 1..Len(v.elems) : WellTyped(w.items[1], v.elems[i])
      [] OTHER -> v.kind = w.type

\* The top-level wire schema of the configuration requires exactly its
\* non-optional entries, and so does every object level below.
RequiredAtEveryLevel ==
    /\ Listed(compiled.wire.required) = NotOptional(config)
    /\ Len(compiled.wire.required) = Cardinality(Listed(compiled.wire.required))
    /\ Len(compiled.wire.properties) = Len(config)
    /\ \A i \in 1..Len(config) :
           RequiredMatches(config[i].field, compiled.wire.properties[i].schema)

\* C12 as stated: at each object level the wire schema's required list holds
\* exactly the names not marked optional, and the compiled validator rejects a
\* value exactly when one of those required names is missing from it.
C12_RejectsExactlyMissing ==
    /\ compiled.done => RequiredAtEveryLevel
    /\ parsed.done => (~parsed.ok <=> MissesRequired(compiled.wire, parsed.value))

\* C12 as amended: the required lists are as stated, and the compiled
\* validator rejects a value exactly when one of those required names is
\* missing from it or one of its parts is not of the type declared for it; so
\* among the values of the declared types it rejects exactly those that miss a
\* required name.
C12_RejectsMissingOrIllTyped ==
    /\ compiled.done => RequiredAtEveryLevel
    /\ parsed.done
           => (~parsed.ok <=> \/ MissesRequired(compiled.wire, parsed.value)
                              \/ ~WellTyped(compiled.wire, parsed.value))

\* The validator has rejected a value of the declared types that has every
\* top-level name and lacks the required name of an object inside an array,
\* whose other property is optional.
C12_Witness ==
    /\ compiled.done /\ parsed.done /\ ~parsed.ok
    /\ WellTyped(compiled.wire, parsed.value)
    /\ config[1].field.type = "array"
    /\ config[1].field.items # <<>>
    /\ config[1].field.items[1].type = "object"
    /\ Len(config[1].field.items[1].properties) = 2
    /\ compiled.wire.properties[1].schema.items[1].required = << "a" >>
    /\ "a" \in KeysOf(parsed.value)
    /\ \E e \in 1..Len(ValueAt(parsed.value, "a").elems) :
           KeysOf(ValueAt(parsed.value, "a").elems[e]) = { "b" }

\* What the claims on status codes say of a POST or DELETE, apart from a POST
\* to a live session: 400 without identifier, 404 when the identifier is not in
\* the live-session map, 204 for a DELETE of a live session.
StatusAsRouted(c) ==
    /\ c.sid = NoId => c.status = 400
    /\ (c.sid # NoId /\ ~c.live) => c.status = 404
    /\ (c.kind = "sseDelete" /\ c.live) => c.status = 204

C14_OtherMethod405 ==
    \A r \in CallIds :
        (calls[r].kind = "sseOther" /\ calls[r].method \notin {"GET", "POST", "DELETE"})
            => calls[r].status = 405

\* C15: an entry is added to the live-session map only by the step in which a
\* GET without identifier registers its session, it is the entry of that GET's
\* fresh identifier, and that step leaves every entry the map already had in
\* place and unchanged; no step of a GET with identifier, a POST, a DELETE or a
\* request of another method adds one.
C15_OnlyGetWithoutIdOpens ==
    [][(sseSessions' \ sseSessions # {})
          => \E g \in CallIds :
                 /\ calls[g].kind = "sseGet"
                 /\ calls[g].method = ""
                 /\ calls[g].pc = "connecting" /\ calls'[g].pc = "done"
                 /\ sseSessions' \ sseSessions = { calls'[g].hdr }
                 /\ \A h \in CallIds \ {g} : calls'[h] = calls[h]
                 /\ Len(calls') = Len(calls)
                 /\ \A sid \in sseSessions :
                        sid \in sseSessions' /\ sse'[sid] = sse[sid]]_vars

\* A second session was opened while the first was live, and a GET carrying
\* the first one's identifier was answered 405 and opened nothing.
C15_Witness ==
    /\ sseSessions = {1, 2}
    /\ Len(sse) = 2
    /\ \E r \in CallIds :
           /\ calls[r].kind = "sseOther" /\ calls[r].method = "GET"
           /\ calls[r].sid = 1 /\ calls[r].status = 405

\* A close path of session sid is under way.
Closing(sid) ==
    \E r \in CallIds : /\ calls[r].kind \in {"sseDelete", "cancel"}
                        /\ calls[r].sid = sid
                        /\ calls[r].pc \in {"closingTransport", "closingServer"}

\* C20: once the stream of a session is no longer open, however it was closed,
\* its heartbeat timer is cleared and no run of the interval callback has found
\* the stream closed; and once no close path of it is under way, its protocol
\* server has been closed.
C20_NoHeartbeatAfterClose ==
    \A sid \in SessionIds :
        sse[sid].stream # "open"
            => /\ ~sse[sid].heartbeat
               /\ sse[sid].lateBeats = 0
               /\ ~Closing(sid) => sse[sid].serverClosed

\* C16: start() and close() are idempotent on both transports: however often
\* start() is called the socket listeners are registered once, and however
\* often close() is called the onclose callback of a split-channel transport
\* fires at most once.
C16_StartCloseIdempotent ==
    /\ \A sid \in SessionIds : sse[sid].oncloseCalls <= 1
    /\ \A id \in SocketIds : ws[id].listeners <= 1

\* session.close() of socket id has started and not finished.
WsClosing(id) ==
    \E r \in CallIds : /\ calls[r].kind = "wsClose"
                        /\ calls[r].sid = id
                        /\ calls[r].pc # "done"

\* C19: once a duplex connection has ended by the peer's close, by an error or
\* by a local close, and the agent has nothing left to run for it (no close
\* event to come, no close path under way), its session is not in the live set.
C19_ClosedLeavesLiveSet ==
    \A id \in SocketIds :
        ( /\ ws[id].causes # {}
          /\ ~ws[id].closeDue
          /\ ~WsClosing(id) ) => id \notin wsSessions

\* The places in the stream of session t that hold a response to the n-th
\* request of session sid.
ResponsesOn(t, sid, n) ==
    { i \in 1..Len(sse[t].frames) :
          /\ sse[t].frames[i][1] = "data"
          /\ sse[t].frames[i][2].session = sid
          /\ sse[t].frames[i][2].request = n }

\* The calls of send(), on the transport of session t, with a response to the
\* n-th request of session sid.
SendsOn(t, sid, n) ==
    { i \in 1..Len(sse[t].sends) :
          /\ sse[t].sends[i].frame[2].session = sid
          /\ sse[t].sends[i].frame[2].request = n }

\* The outcomes of the n-th request of session sid that wait to be sent.
WaitingFor(sid, n) ==
    { i \in 1..Len(sse[sid].pending) : sse[sid].pending[i].request = n }

\* C17 as stated: every request a session's server has handled and answered
\* caused at most one handler invocation and has exactly one response in the
\* stream of its own session, and none in the stream of another.
C17_ExactlyOneResponse ==
    \A sid \in SessionIds : \A n \in 1..sse[sid].handled :
        WaitingFor(sid, n) = {}
            => /\ Cardinality(InvocationsFor(sid, n)) <= 1
               /\ Cardinality(ResponsesOn(sid, sid, n)) = 1
               /\ \A t \in SessionIds \ {sid} : ResponsesOn(t, sid, n) = {}

\* C17: every request a session's server has handled caused at most one
\* handler invocation; its outcome either waits to be sent or was given to
\* send() once, on the transport of its own session and on no other; and its
\* response is in that session's stream once if the stream was open at that
\* send and not at all if it was not.
C17_AtMostOneResponse ==
    \A sid \in SessionIds : \A n \in 1..sse[sid].handled :
        /\ Cardinality(InvocationsFor(sid, n)) <= 1
        /\ Cardinality(WaitingFor(sid, n)) + Cardinality(SendsOn(sid, sid, n)) = 1
        /\ \A t \in SessionIds \ {sid} : SendsOn(t, sid, n) = {} /\ ResponsesOn(t, sid, n) = {}
        /\ Cardinality(ResponsesOn(sid, sid, n))
               = Cardinality({ i \in SendsOn(sid, sid, n) : sse[sid].sends[i].ok })

\* Two sessions exist, the other one's stream is open, and a request that
\* arrived on the later one ran its handler once and was answered once, in the
\* later one's own stream.
C17_Witness ==
    \E sid \in SessionIds, other \in SessionIds :
        /\ sid # other
        /\ sid > 1
        /\ sse[sid].handled >= 1
        /\ Cardinality(ResponsesOn(sid, sid, 1)) = 1
        /\ Cardinality(InvocationsFor(sid, 1)) = 1
        /\ sse[other].stream = "open"

\* A request was handled on a session whose stream was closed before its
\* server sent the outcome.
C17_Dropped ==
    \E sid \in SessionIds :
        /\ sse[sid].handled >= 1
        /\ \E i \in SendsOn(sid, sid, 1) : ~sse[sid].sends[i].ok

\* The frames of the calls of send() that found the peer reachable, in the
\* order of the calls.
Sent(sends) ==
    LET q == SelectSeq(sends, LAMBDA x : x.ok)
    IN  [i \in 1..Len(q) |-> q[i].frame]

\* The protocol messages among the frames written to a stream, in the order
\* written.
Written(frames) == SelectSeq(frames, LAMBDA f : f[1] = "data")

\* C18: in every session the protocol messages written to the peer, stream
\* chunks or socket frames, are those send() was called with while the peer
\* was reachable, in the order of those calls.
C18_FramesInSendOrder ==
    /\ \A sid \in SessionIds : Written(sse[sid].frames) = Sent(sse[sid].sends)
    /\ \A id \in SocketIds : ws[id].frames = Sent(ws[id].sends)

\* A session's server sent the answer to its second request before the answer
\* to its first, with a heartbeat written to the stream as well, and a
\* socket's server has sent two answers.
C18_Witness ==
    /\ \E sid \in SessionIds :
           /\ Len(Written(sse[sid].frames)) >= 2
           /\ Written(sse[sid].frames)[1][2].request = 2
           /\ Written(sse[sid].frames)[2][2].request = 1
           /\ sse[sid].beats > 0
    /\ \E id \in SocketIds : Len(ws[id].frames) >= 2

\* C27: the handler a call of invokeTool runs is given the env and the
\* execution context that call was made with, whatever other calls came in
\* while it was suspended.
C27_HandlerGetsOwnEnv ==
    \A i \in 1..Len(handlerLog) :
        handlerLog[i].via = "invoke"
            => /\ handlerLog[i].env = calls[handlerLog[i].by].env
               /\ handlerLog[i].ctx = handlerLog[i].by

\* C21: a call of invokeTool calls the handler at most once, also when the
\* handler fails; and the caller gets the handler's failure as the failure of
\* the call (the route answers 400 with the handler's error) exactly when the
\* handler threw or its promise was rejected.
C21_HandlerFailurePropagates ==
    \A r \in CallIds :
        calls[r].kind = "invoke"
            => /\ Cardinality(InvocationsOf(r)) <= 1
               /\ calls[r].handler # "" => Cardinality(InvocationsOf(r)) = 1
               /\ calls[r].status # 0 =>
                      /\ (calls[r].status = 400 /\ calls[r].err = "handler")
                             <=> (calls[r].handler = "rejected")
                      /\ (calls[r].status = 200) <=> (calls[r].handler = "resolved")

\* One call's handler threw for want of a key, another's was rejected by the
\* binding, and both were answered 400 with the handler's error.
C21_Witness ==
    \E r \in CallIds, q \in CallIds :
        /\ r # q
        /\ calls[r].status = 400 /\ calls[r].err = "handler"
        /\ HandlerThrows("kv", HandlerArgs(r))
        /\ calls[q].status = 400 /\ calls[q].err = "handler"
        /\ ~HandlerThrows("kv", HandlerArgs(q))

\* The frames among those a peer sent that parse, as the messages they hold.
WellFormed(frames) ==
    LET q == SelectSeq(frames, LAMBDA f : f.json)
    IN  [i \in 1..Len(q) |-> q[i].msg]

\* C22: on a socket, each frame that does not parse is reported once through
\* onerror and is not given to the inbound callback, which gets exactly the
\* frames that parse, in order, those after a bad frame included; and while
\* nothing but frames has come from the peer the socket stays open and the
\* session stays in the live set.
C22_BadFrameReported ==
    \A id \in SocketIds :
        /\ ws[id].onerrorCalls = Len(ws[id].received) - Len(WellFormed(ws[id].received))
        /\ [i \in 1..Len(ws[id].inbox) |-> ws[id].inbox[i].msg] = WellFormed(ws[id].received)
        /\ (ws[id].closeListener /\ ws[id].causes = {})
               => ws[id].socket = "open" /\ id \in wsSessions

\* A socket got a frame that does not parse and then one that does: the first
\* went to onerror, the second to the inbound callback, and the session is
\* still open and live.
C22_Witness ==
    \E id \in SocketIds :
        /\ Len(ws[id].received) = 2
        /\ ~ws[id].received[1].json
        /\ ws[id].received[2].json
        /\ ws[id].onerrorCalls = 1
        /\ Len(ws[id].inbox) = 1
        /\ ws[id].socket = "open"
        /\ id \in wsSessions

\* A split-channel request has ended in an error: a 4xx response, or a failure
\* raised out of handleSseRequest.
Errored(c) == c.status \in {400, 404, 405} \/ c.pc = "threw"

\* C23: a request to a session never raises out of the request handler,
\* whatever its body or identifier; and a step in which a request ends in an
\* error leaves the live-session map and every session's stream, timer and
\* transport as they were.
C23_ErrorsConfined ==
    /\ [](\A r \in CallIds :
             calls[r].kind \in {"ssePost", "sseDelete", "sseOther"} => calls[r].pc # "threw")
    /\ [][\A r \in 1..Len(calls') :
              (Errored(calls'[r]) /\ (r > Len(calls) \/ ~Errored(calls[r])))
                  => sseSessions' = sseSessions /\ sse' = sse]_vars

\* C24: a send made after the session was closed writes nothing, raises no
\* error and is made once: no send has thrown, on a stream or on a socket.
C24_DroppedSilently ==
    /\ \A sid \in SessionIds :
           /\ sse[sid].sendErrors = 0
           /\ Written(sse[sid].frames) = Sent(sse[sid].sends)
    /\ \A id \in SocketIds :
           /\ ws[id].sendErrors = 0
           /\ ws[id].frames = Sent(ws[id].sends)

\* a is an initial part of b.
IsPrefix(a, b) == Len(a) <= Len(b) /\ SubSeq(b, 1, Len(a)) = a

\* C25: no step removes or replaces a registered definition; once the flag is
\* set no step changes the registry or what listTools returns; and every
\* server made for a session or a socket has the agent's registry.
C25_RegistryFrozen ==
    [][/\ IsPrefix(tools, tools')
       /\ initialized => /\ initialized'
                          /\ tools' = tools
                          /\ listTools(tools') = listTools(tools)
       /\ \A sid \in 1..Len(sse') : listTools(sse'[sid].srvTools) = listTools(tools')
       /\ \A id \in 1..Len(ws') : listTools(ws'[id].srvTools) = listTools(tools')]_vars

\* After initialization with remote tools configured, a session server and a
\* socket server were made and a later call of invokeTool ran its handler.
C25_Witness ==
    /\ initialized
    /\ Len(tools) > Len(BuiltinTools)
    /\ Len(sse) + Len(ws) >= 1
    /\ \E r \in CallIds : calls[r].kind = "invoke" /\ InvocationsOf(r) # {}

\* C26: once a call has failed with the duplicate-tool error of init(), the
\* flag is never set and no call made after it ends otherwise than in failure.
C26_DuplicateIsFatal ==
    \A r \in CallIds :
        calls[r].err = "duplicate"
            => /\ ~initialized
               /\ \A q \in CallIds : (q > r /\ Finished(calls[q])) => calls[q].pc = "threw"

\* C28: no message reaches a session's transport once the session's close path
\* has run.
C28_NoDeliveryAfterClose ==
    \A sid \in SessionIds :
        \A i \in 1..Len(sse[sid].inbox) : ~sse[sid].inbox[i].closed

\* C29: whenever a task is running, an alarm is set, for a time no later than
\* the earliest runAt among the running tasks.
C29_AlarmCoversRunning ==
    Running # {} => alarm # NoAlarm /\ alarm <= Earliest(Running)

\* C30: completed and cancelled are final: no step changes the status of a
\* task that is completed or cancelled.
C30_FinalStatuses ==
    [][\A id \in TaskIds :
          tasks[id].status \in {"completed", "cancelled"}
              => tasks'[id].status = tasks[id].status]_vars

====
